---- MODULE Spec2Model ----
(***************************************************************************)
(* Model of backend/services/data_manager.py (StockDataManager): the       *)
(* resident table of daily bars of one market and the read queries the     *)
(* routers run against it.                                                 *)
(*                                                                         *)
(* A row of the table is a record [date, code, change_pct, turnover,       *)
(* close]: the columns the modelled queries read; the files of the chart,  *)
(* gap and search queries add the columns open and name.  Dates are day    *)
(* ordinals, percentages and prices are integers.                          *)
(*                                                                         *)
(* stats holds min_year, max_year, initial_year and initial_month of the   *)
(* manager; app holds the position of main.py's lifespan and the managers  *)
(* that have been loaded and published to the routers.                     *)
(***************************************************************************)
EXTENDS Integers, Sequences, FiniteSets, TLC

VARIABLES market, df, has_columns, stats, app, call, ret, raised,
          heap, cache, disk, clock, tasks

\* The state of the UserManager and of what it works with: heap holds the
\* document objects by identity, cache the object of every cached visitor key,
\* disk the content of every file of the data directory, clock the wall clock
\* in milliseconds, tasks the user requests that have arrived.
userVars == <<heap, cache, disk, clock, tasks>>

vars == <<market, df, has_columns, stats, app, call, ret, raised, userVars>>

\* ---------------------------------------------------------------- bounds

\* Stands for the literal 300 of head(300) / nlargest(300, ...) / limit=300,
\* scaled down so that a day slice can hold more rows than the cap.
TopLimit == 2

\* Stands for the literal 100 of sorted(...)[:100] in get_frequent_stocks,
\* scaled down so that more instruments than the cap can be counted.
FreqLimit == 2

\* Dates of the files that are loaded: 1..MaxDate.
MaxDate == 6

\* ------------------------------------------------------ program constants

\* day_data['change_pct'] >= 3.0 (min_rate)
MinRate == 3

\* close >= 10: the high price bucket
HighPrice == 10

\* close >= 5: the lower edge of the mid price bucket
MidPrice == 5

\* business_days = weeks * 5
DaysPerWeek == 5

\* ---------------------------------------------------------------- helpers

Min(a, b) == IF a <= b THEN a ELSE b

Max(a, b) == IF a >= b THEN a ELSE b

Range(s) == {s[i] : i \in 1..Len(s)}

\* The value of a row in the column a ranking sorts by.
Key(r, col) == IF col = "turnover" THEN r.turnover ELSE r.change_pct

\* HeadRows without the cap.
HeadRowsUncapped(s, n) == s

\* DataFrame.head(n), n >= 0.
HeadRows(s, n) == SubSeq(s, 1, Min(n, Len(s)))

\* Python's s[-n:] : the last n elements for n > 0, the whole list for n = 0
\* (s[-0:] is s[0:]), and s[|n|:] for n < 0.
LastSlice(s, n) ==
    IF n > 0 THEN SubSeq(s, Max(1, Len(s) - n + 1), Len(s))
    ELSE SubSeq(s, Min(Len(s), -n) + 1, Len(s))

\* Python's s[:n] for n >= 0.
FirstSlice(s, n) == SubSeq(s, 1, Min(n, Len(s)))

\* The rows of a frame in descending order of a column, rows that tie kept in
\* their order in the frame.
RECURSIVE StableSortDesc(_, _)
StableSortDesc(s, col) ==
    IF Len(s) <= 1 THEN s
    ELSE LET rest == StableSortDesc(Tail(s), col)
             h == Head(s)
             \* h goes before the first element of rest that it is >= to
             before == {i \in 1..Len(rest) : Key(rest[i], col) > Key(h, col)}
             k == Cardinality(before)
         IN SubSeq(rest, 1, k) \o <<h>> \o SubSeq(rest, k + 1, Len(rest))

\* DataFrame.sort_values(col, ascending=False): the default sort is not stable,
\* so every descending arrangement of the rows is a possible outcome.
SortValuesDesc(s, col) ==
    LET n == Len(s)
        perms == {p \in [1..n -> 1..n] :
                     /\ \A i, j \in 1..n : i # j => p[i] # p[j]
                     /\ \A i \in 1..n : i < n =>
                            Key(s[p[i]], col) >= Key(s[p[i + 1]], col)}
    IN {[i \in 1..n |-> s[p[i]]] : p \in perms}

\* DataFrame.nlargest(n, col) (keep='first'): the n largest rows in descending
\* order, the first occurrences preferred among ties.
NLargest(s, n, col) == HeadRows(StableSortDesc(s, col), n)

\* self.df[self.df['date'] == date]
DayData(frame, d) == SelectSeq(frame, LAMBDA r : r.date = d)

\* _to_records: [] for an empty frame, else one dict per row.
ToRecords(data) == IF Len(data) = 0 THEN <<>> ELSE data

\* _get_sorted_dates: the distinct dates of the table, ascending.
RECURSIVE SortedSeqOfSet(_)
SortedSeqOfSet(S) ==
    IF S = {} THEN <<>>
    ELSE LET m == CHOOSE x \in S : \A y \in S : x <= y
         IN <<m>> \o SortedSeqOfSet(S \ {m})

GetSortedDates(frame) ==
    IF Len(frame) = 0 THEN <<>>
    ELSE SortedSeqOfSet({frame[i].date : i \in 1..Len(frame)})

\* list.index(x): the position of x, 0 when x is not in the list (ValueError).
IndexOf(s, x) ==
    IF \E i \in 1..Len(s) : s[i] = x
    THEN CHOOSE i \in 1..Len(s) : s[i] = x
    ELSE 0

\* -------------------------------------------------------- day-slice ranker

IsVolumeCategory(category) ==
    category \in {"trading_value", "high_price_volume", "mid_price_volume",
                  "low_price_volume"}

\* _get_us_price_filtered_data
GetUsPriceFilteredData(day_data, category) ==
    IF category \in {"high_price_volume", "high_price_rate"}
    THEN SelectSeq(day_data, LAMBDA r : r.close >= HighPrice)
    ELSE IF category \in {"mid_price_volume", "mid_price_rate"}
    THEN SelectSeq(day_data, LAMBDA r : r.close >= MidPrice /\ r.close < HighPrice)
    ELSE SelectSeq(day_data, LAMBDA r : r.close < MidPrice)

\* RateFiltered with > in place of >=.
RateFilteredStrict(data) == SelectSeq(data, LAMBDA r : r.change_pct > MinRate)

\* The rows kept by the change_pct >= min_rate condition of the by-turnover
\* ranking.
RateFiltered(data) == SelectSeq(data, LAMBDA r : r.change_pct >= MinRate)

\* _filter_by_volume: the possible results.
FilterByVolume(data) ==
    {ToRecords(HeadRows(s, TopLimit)) :
        s \in SortValuesDesc(RateFiltered(data), "turnover")}

\* _filter_by_rate: the possible results.
FilterByRate(data) ==
    {ToRecords(HeadRows(s, TopLimit)) : s \in SortValuesDesc(data, "change_pct")}

\* The price buckets of get_us_day_data.
UsHighPrice(day_data) == SelectSeq(day_data, LAMBDA r : r.close >= HighPrice)

UsMidPrice(day_data) ==
    SelectSeq(day_data, LAMBDA r : r.close >= MidPrice /\ r.close < HighPrice)

\* UsLowPrice with the edge of the high bucket in place of the mid bucket's.
UsLowPriceBelowHigh(day_data) == SelectSeq(day_data, LAMBDA r : r.close < HighPrice)

UsLowPrice(day_data) == SelectSeq(day_data, LAMBDA r : r.close < MidPrice)

\* ------------------------------------------------------------ the files

\* Instrument ids, in the order the update scripts sort a day's rows by.
CodeSeq == <<"A", "B", "C">>

Codes == Range(CodeSeq)

\* A file holds at most one row per (date, instrument) and is sorted by date,
\* then instrument: kr_stock_update.py / us_stock_update.py drop duplicates of
\* (date, code) and sort before writing.  A cell c of 1..(dates * codes) is the
\* (date, instrument) pair of that position in the sorted order.
CellDate(c) == ((c - 1) \div Len(CodeSeq)) + 1

CellCode(c) == CodeSeq[((c - 1) % Len(CodeSeq)) + 1]

MakeRow(c, p) ==
    [date |-> CellDate(c), code |-> CellCode(c), change_pct |-> p.change_pct,
     turnover |-> p.turnover, close |-> p.close]

\* The files with rows at the cells of S, every row's values drawn from profiles.
FilesAt(S, profiles) ==
    LET cs == SortedSeqOfSet(S)
    IN {[i \in 1..Len(cs) |-> MakeRow(cs[i], f[cs[i]])] : f \in [S -> profiles]}

\* Every file with at most maxRows rows on the dates 1..lastDate.
FilesOver(lastDate, maxRows, profiles) ==
    UNION {FilesAt(S, profiles) :
             S \in {T \in SUBSET (1..(lastDate * Len(CodeSeq))) :
                       Cardinality(T) <= maxRows}}

Profiles(cps, tvs, closes) ==
    {[change_pct |-> c, turnover |-> t, close |-> k] :
        c \in cps, t \in tvs, k \in closes}

\* The files of the day-snapshot specification: up to MaxDayRows rows on two
\* dates; KR rows vary in rate and turnover, US rows also in price.
MaxDayRows == 3

DayFiles(m) ==
    IF m = "kr"
    THEN FilesOver(2, MaxDayRows, Profiles({2, 3, 4}, {1, 2}, {10}))
    ELSE FilesOver(1, MaxDayRows, Profiles({2, 3}, {1, 2}, {4, 5, 10}))

\* ------------------------------------------------------------- the state

NoCall == [op |-> "none", date |-> 0, n |-> 0, category |-> "-"]

\* A dict: a function on its keys.  {} , d[k] = v and del d[k].
EmptyMap == [k \in {} |-> 0]

Put(d, k, v) == [x \in DOMAIN d \union {k} |-> IF x = k THEN v ELSE d[x]]

Del(d, k) == [x \in DOMAIN d \ {k} |-> d[x]]

\* datetime.now() at construction, and the scaled calendar of the day
\* ordinals: DatesPerMonth dates to a month, MonthsPerYear months to a year.
NowYear == 2030

NowMonth == 1

FirstYear == 2024

DatesPerMonth == 2

MonthsPerYear == 2

YearOf(d) == FirstYear + (d - 1) \div (DatesPerMonth * MonthsPerYear)

MonthOf(d) == (((d - 1) \div DatesPerMonth) % MonthsPerYear) + 1

\* The resident table after a query has built its working frame from it: a
\* boolean-mask selection, sort_values without inplace and .copy() all make
\* a new frame, and the columns a query adds (MA20, prev_close, ...) go to
\* that frame.  ResidentAliased is the query working on self.df itself.
ResidentAliased(frame, working) == working

Resident(frame, working) == frame

\* The year fields __init__ sets.
InitialStats ==
    [min_year |-> NowYear, max_year |-> NowYear,
     initial_year |-> NowYear, initial_month |-> NowMonth]

\* The statements of lifespan up to its yield, in program order: both loads,
\* then both routers get their manager.
LifespanOrderPublishFirst ==
    <<[do |-> "publish", of |-> "kr"], [do |-> "publish", of |-> "us"],
      [do |-> "load", of |-> "kr"], [do |-> "load", of |-> "us"],
      [do |-> "serve", of |-> "-"]>>

LifespanOrder ==
    <<[do |-> "load", of |-> "kr"], [do |-> "load", of |-> "us"],
      [do |-> "publish", of |-> "kr"], [do |-> "publish", of |-> "us"],
      [do |-> "serve", of |-> "-"]>>

\* main.py before lifespan runs: nothing loaded, the routers' managers None.
\* pc is the position in LifespanOrder, loaded the markets whose load_data has
\* returned, published the markets whose router holds its manager.
InitialApp == [pc |-> 1, loaded |-> {}, published |-> {}]

\* lifespan at its yield.
ServingApp ==
    [pc |-> Len(LifespanOrder), loaded |-> {"kr", "us"},
     published |-> {"kr", "us"}]

\* StockDataManager.__init__: an empty frame without columns.
\* UserManager.__init__: an empty cache; no visitor has a file yet.
Init ==
    /\ market \in {"kr", "us"}
    /\ df = <<>>
    /\ has_columns = FALSE
    /\ stats = InitialStats
    /\ app = InitialApp
    /\ call = NoCall
    /\ ret = <<>>
    /\ raised = "none"
    /\ heap = EmptyMap
    /\ cache = EmptyMap
    /\ disk = EmptyMap
    /\ clock = 1
    /\ tasks = <<>>

\* The year fields load_data sets from a parsed frame: those of its first and
\* last date, left alone when the frame has no row.
StatsOf(frame, old) ==
    IF Len(frame) = 0 THEN old
    ELSE LET min_date == CHOOSE d \in {frame[i].date : i \in 1..Len(frame)} :
                            \A i \in 1..Len(frame) : d <= frame[i].date
             max_date == CHOOSE d \in {frame[i].date : i \in 1..Len(frame)} :
                            \A i \in 1..Len(frame) : d >= frame[i].date
         IN [min_year |-> YearOf(min_date), max_year |-> YearOf(max_date),
             initial_year |-> YearOf(max_date),
             initial_month |-> MonthOf(max_date)]

LoadOutcomes == {"missing", "parse_error", "parsed"}

\* load_data: a missing file leaves the manager as constructed, and so does an
\* exception while parsing (a file without the change_pct column raises
\* KeyError before self.df is assigned; the except clause prints it);
\* otherwise the parsed rows become the resident table.  It never raises.
LoadInto(files, outcome) ==
    IF outcome # "parsed"
    THEN UNCHANGED <<df, has_columns, stats>>
    ELSE /\ \E file \in files : df' = file
         /\ has_columns' = TRUE
         /\ stats' = StatsOf(df', stats)

\* lifespan as one step, for the specifications that study the queries: the
\* observed market's load_data, and at the yield both routers hold their
\* manager.
LoadData(files) ==
    /\ call.op = "none"
    /\ \E outcome \in LoadOutcomes :
         /\ LoadInto(files, outcome)
         /\ call' = [NoCall EXCEPT !.op = "load_data", !.category = outcome]
    /\ ret' = <<>>
    /\ raised' = "none"
    /\ app' = ServingApp
    /\ UNCHANGED <<market, userVars>>

\* The value a handler returns (or the exception it raises) has been sent: the
\* endpoints are coroutines that never await, so the event loop serves one
\* request at a time, the next one after the previous has returned.
Return ==
    /\ call.op \notin {"none", "idle"}
    /\ call' = [NoCall EXCEPT !.op = "idle"]
    /\ ret' = <<>>
    /\ raised' = "none"
    /\ UNCHANGED <<market, df, has_columns, stats, app, userVars>>

\* lifespan has loaded the data and published the manager; no request is
\* being served.
Loaded == call.op = "idle"

\* Dates a request may name: those of the table's range, one before and one
\* after.
RequestDates ==
    0..(IF Len(df) = 0 THEN 1 ELSE df[Len(df)].date + 1)

\* get_kr_day_data
GetKrDayData(d) ==
    /\ Loaded
    /\ market = "kr"
    /\ call' = [NoCall EXCEPT !.op = "kr_day", !.date = d]
    /\ IF ~has_columns
       THEN \* self.df['date'] on a frame without columns: KeyError
            /\ raised' = "KeyError"
            /\ ret' = <<>>
       ELSE LET day_data == DayData(df, d)
            IN /\ raised' = "none"
               /\ IF Len(day_data) = 0
                  THEN ret' = [trading_value |-> <<>>, change_rate |-> <<>>]
                  ELSE \E tv \in SortValuesDesc(RateFiltered(day_data), "turnover"),
                          cr \in SortValuesDesc(day_data, "change_pct") :
                         ret' = [trading_value |-> ToRecords(HeadRows(tv, TopLimit)),
                                 change_rate |-> ToRecords(HeadRows(cr, TopLimit))]
    /\ UNCHANGED <<market, df, has_columns, stats, app, userVars>>

\* _us_empty_result
UsEmptyResult ==
    [high_price_volume |-> <<>>, high_price_rate |-> <<>>,
     mid_price_volume |-> <<>>, mid_price_rate |-> <<>>,
     low_price_volume |-> <<>>, low_price_rate |-> <<>>]

\* get_us_day_data
GetUsDayData(d) ==
    /\ Loaded
    /\ market = "us"
    /\ call' = [NoCall EXCEPT !.op = "us_day", !.date = d]
    /\ IF ~has_columns
       THEN /\ raised' = "KeyError"
            /\ ret' = <<>>
       ELSE LET day_data == DayData(df, d)
            IN /\ raised' = "none"
               /\ IF Len(day_data) = 0
                  THEN ret' = UsEmptyResult
                  ELSE \E hv \in FilterByVolume(UsHighPrice(day_data)),
                          hr \in FilterByRate(UsHighPrice(day_data)),
                          mv \in FilterByVolume(UsMidPrice(day_data)),
                          mr \in FilterByRate(UsMidPrice(day_data)),
                          lv \in FilterByVolume(UsLowPrice(day_data)),
                          lr \in FilterByRate(UsLowPrice(day_data)) :
                         ret' = [high_price_volume |-> hv, high_price_rate |-> hr,
                                 mid_price_volume |-> mv, mid_price_rate |-> mr,
                                 low_price_volume |-> lv, low_price_rate |-> lr]
    /\ UNCHANGED <<market, df, has_columns, stats, app, userVars>>

NextDay ==
    \/ Return
    \/ LoadData(DayFiles(market))
    \/ \E d \in RequestDates : GetKrDayData(d)
    \/ \E d \in RequestDates : GetUsDayData(d)

SpecDay == Init /\ [][NextDay]_vars

\* ---------------------------------------------------------- the scanners

\* Files of the scanner specifications.  Dense files: at most MaxScanRows rows
\* on two dates, three instruments, rate below zero or at the threshold, two
\* turnovers.  Thin files: on each of the dates 1..MaxDate either no row or one
\* row of the first instrument, so that the date index has gaps and is longer
\* than a week.  US files vary the price instead of the turnover.
MaxScanRows == 5

ThinFiles ==
    LET cellsOf(D) == {(d - 1) * Len(CodeSeq) + 1 : d \in D}
    IN UNION {FilesAt(cellsOf(D), Profiles({-1, 3}, {1}, {10})) :
                 D \in SUBSET (1..MaxDate)}

ScanFiles(m) ==
    IF m = "kr"
    THEN FilesOver(2, MaxScanRows, Profiles({-1, 3}, {1, 2}, {10})) \union ThinFiles
    ELSE FilesOver(2, 2, Profiles({-1, 3}, {1}, {4, 5, 10}))

\* The categories a router passes to the scanners of its market.
Categories(m) ==
    IF m = "kr" THEN {"trading_value", "change_rate"}
    ELSE {"high_price_volume", "high_price_rate", "mid_price_volume",
          "mid_price_rate", "low_price_volume", "low_price_rate"}

\* Top300Rows ranking by turnover without the rate condition.
Top300RowsUnfiltered(frame, mkt, d, category) ==
    LET day_data == DayData(frame, d)
        sliced == IF mkt = "us" THEN GetUsPriceFilteredData(day_data, category)
                  ELSE day_data
    IN IF IsVolumeCategory(category)
       THEN NLargest(sliced, TopLimit, "turnover")
       ELSE NLargest(sliced, TopLimit, "change_pct")

\* The ranking of one day's slice that both _get_top300_stocks and the loop of
\* get_frequent_stocks compute: price bucket (US), then nlargest.
Top300Rows(frame, mkt, d, category) ==
    LET day_data == DayData(frame, d)
        sliced == IF mkt = "us" THEN GetUsPriceFilteredData(day_data, category)
                  ELSE day_data
    IN IF IsVolumeCategory(category)
       THEN NLargest(RateFiltered(sliced), TopLimit, "turnover")
       ELSE NLargest(sliced, TopLimit, "change_pct")

\* _get_top300_stocks
GetTop300Stocks(frame, mkt, d, category) ==
    IF Len(DayData(frame, d)) = 0 THEN {}
    ELSE {r.code : r \in Range(Top300Rows(frame, mkt, d, category))}

\* past_dates of get_frequent_stocks
PastDates(frame, base, weeks) ==
    LastSlice(SelectSeq(GetSortedDates(frame), LAMBDA d : d <= base),
              weeks * DaysPerWeek)

\* CountRows counting an instrument only from its second appearance on.
RECURSIVE CountRowsFromSecond(_, _)
CountRowsFromSecond(counts, rows) ==
    IF Len(rows) = 0 THEN counts
    ELSE LET code == Head(rows).code
             known == \E i \in 1..Len(counts) : counts[i].code = code
         IN CountRowsFromSecond(
               IF known
               THEN [i \in 1..Len(counts) |->
                       IF counts[i].code = code
                       THEN [counts[i] EXCEPT !.count = @ + 1]
                       ELSE counts[i]]
               ELSE Append(counts, [code |-> code, count |-> 0]),
               Tail(rows))

\* The inner loop of get_frequent_stocks over the rows of one day's top 300:
\* stock_counts as the sequence of its (code, count) items in insertion order.
RECURSIVE CountRows(_, _)
CountRows(counts, rows) ==
    IF Len(rows) = 0 THEN counts
    ELSE LET code == Head(rows).code
             known == \E i \in 1..Len(counts) : counts[i].code = code
             started == IF known THEN counts
                        ELSE Append(counts, [code |-> code, count |-> 0])
             bumped == [i \in 1..Len(started) |->
                          IF started[i].code = code
                          THEN [started[i] EXCEPT !.count = @ + 1]
                          ELSE started[i]]
         IN CountRows(bumped, Tail(rows))

\* The outer loop of get_frequent_stocks over the dates of the window.
RECURSIVE CountDates(_, _, _, _, _)
CountDates(counts, dates, frame, mkt, category) ==
    IF Len(dates) = 0 THEN counts
    ELSE CountDates(
            IF Len(DayData(frame, Head(dates))) = 0 THEN counts
            ELSE CountRows(counts, Top300Rows(frame, mkt, Head(dates), category)),
            Tail(dates), frame, mkt, category)

\* LatestTradingValue looking only at the rows with the threshold rate.
LatestTradingValueRanked(frame, latest_date, code) ==
    LET stock_row == SelectSeq(RateFiltered(DayData(frame, latest_date)),
                               LAMBDA r : r.code = code)
    IN IF Len(stock_row) > 0 THEN stock_row[1].turnover ELSE 0

\* latest_trading_value.get(code, 0): the turnover of the instrument's first row
\* on the latest date of the window, 0 without one.
LatestTradingValue(frame, latest_date, code) ==
    LET stock_row == SelectSeq(DayData(frame, latest_date), LAMBDA r : r.code = code)
    IN IF Len(stock_row) > 0 THEN stock_row[1].turnover ELSE 0

\* The sort key (count, latest turnover) compared as Python compares tuples.
StockKeyGreater(a, b) ==
    \/ a.count > b.count
    \/ a.count = b.count /\ a.latest > b.latest

\* sorted(stock_counts.items(), key=..., reverse=True): descending and stable.
RECURSIVE SortedStocks(_)
SortedStocks(s) ==
    IF Len(s) <= 1 THEN s
    ELSE LET rest == SortedStocks(Tail(s))
             h == Head(s)
             k == Cardinality({i \in 1..Len(rest) : StockKeyGreater(rest[i], h)})
         IN SubSeq(rest, 1, k) \o <<h>> \o SubSeq(rest, k + 1, Len(rest))

\* The value get_frequent_stocks returns.
FrequentStocks(frame, mkt, base, weeks, category) ==
    LET past_dates == PastDates(frame, base, weeks)
    IN IF Len(frame) = 0 \/ Len(past_dates) = 0 THEN <<>>
       ELSE LET latest_date == past_dates[Len(past_dates)]
                counts == CountDates(<<>>, past_dates, frame, mkt, category)
                keyed == [i \in 1..Len(counts) |->
                            [code |-> counts[i].code, count |-> counts[i].count,
                             latest |-> LatestTradingValue(frame, latest_date,
                                                           counts[i].code)]]
                sorted_stocks == FirstSlice(SortedStocks(keyed), FreqLimit)
            IN [rank \in 1..Len(sorted_stocks) |->
                  [rank |-> rank,
                   code |-> sorted_stocks[rank].code,
                   appearance_count |-> sorted_stocks[rank].count,
                   window_trading_day_count |-> Len(past_dates),
                   latest_turnover |-> sorted_stocks[rank].latest]]

\* get_frequent_stocks
GetFrequentStocks(base, weeks, category) ==
    /\ Loaded
    /\ call' = [op |-> "frequent", date |-> base, n |-> weeks, category |-> category]
    /\ ret' = FrequentStocks(df, market, base, weeks, category)
    /\ raised' = "none"
    /\ UNCHANGED <<market, df, has_columns, stats, app, userVars>>

\* The items get_pullback_stocks and get_consecutive_rise_stocks build from the
\* sorted rows; extra is the reference date or the number of days.
ScanItems(rows, extra) ==
    [rank \in 1..Len(rows) |->
        [rank |-> rank, code |-> rows[rank].code,
         change_pct |-> rows[rank].change_pct, close |-> rows[rank].close,
         turnover |-> rows[rank].turnover, extra |-> extra]]

\* PastIdx stepping one position short.
PastIdxOneShort(base_idx, days_ago) == base_idx - days_ago + 1

\* past_idx of get_pullback_stocks: days_ago positions back in the date index.
PastIdx(base_idx, days_ago) == base_idx - days_ago

\* PullbackRows without the membership test.
PullbackRowsAnyCode(today_data, past_top300) ==
    SelectSeq(today_data, LAMBDA r : r.change_pct < 0)

\* The rows of the base date that get_pullback_stocks keeps.
PullbackRows(today_data, past_top300) ==
    SelectSeq(today_data, LAMBDA r : r.code \in past_top300 /\ r.change_pct < 0)

\* get_pullback_stocks
GetPullbackStocks(base, days_ago, category) ==
    LET available_dates == GetSortedDates(df)
        base_idx == IndexOf(available_dates, base)
        past_idx == PastIdx(base_idx, days_ago)
    IN /\ Loaded
       /\ call' = [op |-> "pullback", date |-> base, n |-> days_ago,
                   category |-> category]
       /\ IF Len(df) = 0 \/ base_idx = 0 \/ past_idx < 1
          THEN ret' = <<>> /\ raised' = "none"
          ELSE IF past_idx > Len(available_dates)
          THEN \* available_dates[past_idx] past the end of the list
               ret' = <<>> /\ raised' = "IndexError"
          ELSE LET past_date == available_dates[past_idx]
                   past_top300 == GetTop300Stocks(df, market, past_date, category)
                   today_data == DayData(df, base)
               IN /\ raised' = "none"
                  /\ IF past_top300 = {} \/ Len(today_data) = 0
                     THEN ret' = <<>>
                     ELSE \E pullback \in
                              SortValuesDesc(PullbackRows(today_data, past_top300),
                                             "turnover") :
                            ret' = ScanItems(pullback, past_date)
       /\ UNCHANGED <<market, df, has_columns, stats, app, userVars>>

\* The codes with change_pct > 0 on a date.
RisingCodes(frame, d) ==
    {r.code : r \in {q \in Range(DayData(frame, d)) : q.change_pct > 0}}

\* RiseCandidates that does not test the first date of the window.
RiseCandidatesAfterFirst(candidates, dates, frame) ==
    [abort |-> \E i \in 1..Len(dates) : Len(DayData(frame, dates[i])) = 0,
     codes |-> {c \in candidates :
                  \A i \in 2..Len(dates) : c \in RisingCodes(frame, dates[i])}]

\* The loop of get_consecutive_rise_stocks over check_dates: the candidates
\* left, or "abort" when a date has no rows.
RECURSIVE RiseCandidates(_, _, _)
RiseCandidates(candidates, dates, frame) ==
    IF Len(dates) = 0 THEN [abort |-> FALSE, codes |-> candidates]
    ELSE IF Len(DayData(frame, Head(dates))) = 0
    THEN [abort |-> TRUE, codes |-> {}]
    ELSE RiseCandidates(candidates \intersect RisingCodes(frame, Head(dates)),
                        Tail(dates), frame)

\* get_consecutive_rise_stocks
GetConsecutiveRiseStocks(base, consecutive_days, category) ==
    LET available_dates == GetSortedDates(df)
        base_idx == IndexOf(available_dates, base)
    IN /\ Loaded
       /\ call' = [op |-> "consecutive", date |-> base, n |-> consecutive_days,
                   category |-> category]
       /\ IF Len(df) = 0 \/ base_idx = 0 \/ base_idx - 1 < consecutive_days - 1
          THEN ret' = <<>> /\ raised' = "none"
          ELSE IF consecutive_days <= 0
          THEN \* check_dates is empty: check_dates[0]
               ret' = <<>> /\ raised' = "IndexError"
          ELSE LET check_dates ==
                       [i \in 1..consecutive_days |->
                           available_dates[base_idx - consecutive_days + i]]
                   first_top300 == GetTop300Stocks(df, market, check_dates[1], category)
                   left == RiseCandidates(first_top300, check_dates, df)
                   result_data == SelectSeq(DayData(df, base),
                                            LAMBDA r : r.code \in left.codes)
               IN /\ raised' = "none"
                  /\ IF first_top300 = {} \/ left.abort \/ left.codes = {}
                     THEN ret' = <<>>
                     ELSE \E sorted_data \in SortValuesDesc(result_data, "turnover") :
                            ret' = ScanItems(sorted_data, consecutive_days)
       /\ UNCHANGED <<market, df, has_columns, stats, app, userVars>>

NextFrequent ==
    \/ Return
    \/ LoadData(ScanFiles(market))
    \/ \E base \in RequestDates, weeks \in -1..2, category \in Categories(market) :
          GetFrequentStocks(base, weeks, category)

SpecFrequent == Init /\ [][NextFrequent]_vars

NextPullback ==
    \/ Return
    \/ LoadData(ScanFiles(market))
    \/ \E base \in RequestDates, days_ago \in -1..3, category \in Categories(market) :
          GetPullbackStocks(base, days_ago, category)

SpecPullback == Init /\ [][NextPullback]_vars

NextRise ==
    \/ Return
    \/ LoadData(ScanFiles(market))
    \/ \E base \in RequestDates, days \in 0..4, category \in Categories(market) :
          GetConsecutiveRiseStocks(base, days, category)

SpecRise == Init /\ [][NextRise]_vars

\* ------------------------------------------------- day snapshot: C1 - C3

DaySnapshotReturned == call.op \in {"kr_day", "us_day"} /\ raised = "none"

\* The lists of the returned day snapshot, each with its sort column and the
\* slice of the day it ranks.
DaySnapshotLists ==
    LET day == DayData(df, call.date)
    IN IF call.op = "kr_day"
       THEN {[rows |-> ret.trading_value, col |-> "turnover", slice |-> day],
             [rows |-> ret.change_rate, col |-> "change_pct", slice |-> day]}
       ELSE {[rows |-> ret.high_price_volume, col |-> "turnover",
              slice |-> UsHighPrice(day)],
             [rows |-> ret.high_price_rate, col |-> "change_pct",
              slice |-> UsHighPrice(day)],
             [rows |-> ret.mid_price_volume, col |-> "turnover",
              slice |-> UsMidPrice(day)],
             [rows |-> ret.mid_price_rate, col |-> "change_pct",
              slice |-> UsMidPrice(day)],
             [rows |-> ret.low_price_volume, col |-> "turnover",
              slice |-> UsLowPrice(day)],
             [rows |-> ret.low_price_rate, col |-> "change_pct",
              slice |-> UsLowPrice(day)]}

DescendingBy(rows, col) ==
    \A i \in 1..Len(rows) : i < Len(rows) => Key(rows[i], col) >= Key(rows[i + 1], col)

\* A list is the top of a set of candidate rows by a column: its rows are
\* distinct candidates, and a candidate is left out only when the list is full
\* of rows that are at least as large.
IsTopOf(rows, candidates, col) ==
    /\ Range(rows) \subseteq candidates
    /\ \A i, j \in 1..Len(rows) : i # j => rows[i] # rows[j]
    /\ \A r \in candidates \ Range(rows) :
          /\ Len(rows) = TopLimit
          /\ \A q \in Range(rows) : Key(q, col) >= Key(r, col)

UsBucketLists(bucket) ==
    IF bucket = "high" THEN <<ret.high_price_volume, ret.high_price_rate>>
    ELSE IF bucket = "mid" THEN <<ret.mid_price_volume, ret.mid_price_rate>>
    ELSE <<ret.low_price_volume, ret.low_price_rate>>

\* The lists of a US snapshot rank exactly the rows of the day that are in the
\* price bucket, low being the rows with close < lowEdge.
UsBucketsRestrict(lowEdge) ==
    LET day == Range(DayData(df, call.date))
        InBucket(r, bucket) ==
            IF bucket = "high" THEN r.close >= HighPrice
            ELSE IF bucket = "mid" THEN r.close >= MidPrice /\ r.close < HighPrice
            ELSE r.close < lowEdge
    IN \A bucket \in {"high", "mid", "low"} :
          LET rows == {r \in day : InBucket(r, bucket)}
          IN /\ IsTopOf(UsBucketLists(bucket)[1],
                        {r \in rows : r.change_pct >= MinRate}, "turnover")
             /\ IsTopOf(UsBucketLists(bucket)[2], rows, "change_pct")

\* C3 as claimed: high keeps exactly the rows with close >= 10, mid those with
\* 5 <= close < 10 and low those with close < 10.
C3_AsClaimed ==
    (call.op = "us_day" /\ raised = "none") => UsBucketsRestrict(HighPrice)

\* C3, amended: high keeps exactly the rows with close >= 10, mid those with
\* 5 <= close < 10 and low those with close < 5, in the day snapshot and in the
\* slice the scanners rank (_get_us_price_filtered_data).
C3_BucketsPartitionAtFiveAndTen ==
    /\ (call.op = "us_day" /\ raised = "none") => UsBucketsRestrict(MidPrice)
    /\ (call.op = "us_day" /\ raised = "none") =>
          LET day == DayData(df, call.date)
          IN /\ \A c \in {"high_price_volume", "high_price_rate"} :
                   GetUsPriceFilteredData(day, c)
                     = SelectSeq(day, LAMBDA r : r.close >= HighPrice)
             /\ \A c \in {"mid_price_volume", "mid_price_rate"} :
                   GetUsPriceFilteredData(day, c)
                     = SelectSeq(day, LAMBDA r : r.close >= MidPrice /\ r.close < HighPrice)
             /\ \A c \in {"low_price_volume", "low_price_rate"} :
                   GetUsPriceFilteredData(day, c)
                     = SelectSeq(day, LAMBDA r : r.close < MidPrice)

\* A US snapshot of a day with a row in each bucket, the mid one priced 5: it is
\* in the mid lists and not in the low ones.
C3_Witness ==
    /\ call.op = "us_day" /\ raised = "none"
    /\ \E r \in Range(ret.mid_price_rate) : r.close = MidPrice
    /\ \E r \in Range(ret.low_price_rate) : r.close < MidPrice
    /\ \E r \in Range(ret.high_price_rate) : r.close = HighPrice
    /\ \A r \in Range(ret.low_price_rate) : r.close # MidPrice

\* ------------------------------------------------- the scanners: C4 - C10

\* The distinct trading dates of the table, the 1-based position of a date
\* among them and the date at a position, by counting.
DateSet == {df[i].date : i \in 1..Len(df)}

PositionOf(d) == Cardinality({x \in DateSet : x <= d})

DateAt(k) == CHOOSE d \in DateSet : PositionOf(d) = k

Items == Range(ret)

\* The request served: its date, count and category arguments.
FrequentReturned == call.op = "frequent" /\ raised = "none"

\* C4 as claimed: for every baseDate and every integer weeks the window is the
\* weeks*5 most recent trading dates <= baseDate: the window_trading_day_count
\* of every item is at most weeks*5, and is the number of trading dates
\* <= baseDate when that is smaller.
C4_AsClaimed ==
    FrequentReturned =>
        \A item \in Items :
            /\ item.window_trading_day_count <= call.n * DaysPerWeek
            /\ item.window_trading_day_count
                 = Min(call.n * DaysPerWeek, PositionOf(call.date))

\* The same for weeks >= 1, where the code does what C4 says.
C4_ForPositiveWeeks ==
    (FrequentReturned /\ call.n >= 1) =>
        \A item \in Items :
            item.window_trading_day_count
              = Min(call.n * DaysPerWeek, PositionOf(call.date))

\* The dates of the window a frequency request resolves to.
ResolvedWindow == Range(PastDates(df, call.date, call.n))

\* The days of the resolved window on which an instrument is in the top 300 of
\* the requested category.
DaysInTop(code) ==
    {d \in ResolvedWindow : code \in GetTop300Stocks(df, market, d, call.category)}

\* C5: the appearance_count of every returned item is the number of days of the
\* resolved window on which the instrument is in that day's top 300 (TopLimit)
\* for the requested category, and is never 0.
C5_AppearanceCountIsDaysInTop ==
    FrequentReturned =>
        \A item \in Items :
            /\ item.appearance_count = Cardinality(DaysInTop(item.code))
            /\ item.appearance_count >= 1

\* A result for weeks = 1 with an instrument counted on two days and one that
\* has a row on two days of the window and is counted once: on the other day it
\* was not in the top 300.
C5_Witness ==
    /\ FrequentReturned /\ call.n = 1
    /\ \E item \in Items : item.appearance_count = 2
    /\ \E item \in Items :
          /\ item.appearance_count = 1
          /\ Cardinality({d \in ResolvedWindow :
                \E r \in Range(DayData(df, d)) : r.code = item.code}) = 2

\* The turnover of an instrument on a date, from the table: 0 without a row.
TurnoverOn(code, d) ==
    IF \E r \in Range(df) : r.date = d /\ r.code = code
    THEN (CHOOSE r \in Range(df) : r.date = d /\ r.code = code).turnover
    ELSE 0

\* The last date of the resolved window.
LatestWindowDate == CHOOSE d \in ResolvedWindow : \A x \in ResolvedWindow : x <= d

\* An item is ranked no lower than another: more appearances, or as many and
\* at least the turnover.
RankedNoLower(count1, tv1, count2, tv2) ==
    count1 > count2 \/ (count1 = count2 /\ tv1 >= tv2)

\* C6: get_frequent_stocks returns at most 100 (FreqLimit) items ranked 1..n,
\* in descending order of appearance_count and, among equal counts, of the
\* instrument's turnover on the last date of the window, read from the table
\* whether or not the instrument was in that day's top 300 (0 without a row that
\* day); an instrument that was counted is left out only when the list is full
\* of items ranked no lower.
C6_RankedByCountThenLatestTurnover ==
    FrequentReturned =>
        /\ Len(ret) <= FreqLimit
        /\ \A i \in 1..Len(ret) :
              /\ ret[i].rank = i
              /\ ret[i].latest_turnover = TurnoverOn(ret[i].code, LatestWindowDate)
        /\ \A i, j \in 1..Len(ret) :
              i < j => RankedNoLower(ret[i].appearance_count, ret[i].latest_turnover,
                                     ret[j].appearance_count, ret[j].latest_turnover)
        /\ \A code \in Codes :
              (DaysInTop(code) # {} /\ \A item \in Items : item.code # code) =>
                  /\ Len(ret) = FreqLimit
                  /\ \A item \in Items :
                        RankedNoLower(item.appearance_count, item.latest_turnover,
                                      Cardinality(DaysInTop(code)),
                                      TurnoverOn(code, LatestWindowDate))

\* Two items with equal counts ordered by their turnover on the last window
\* date, the first of them not in that day's top 300, and a counted instrument
\* cut off by the cap.
C6_Witness ==
    /\ FrequentReturned /\ call.n = 1 /\ Len(ret) = FreqLimit
    /\ ret[1].appearance_count = ret[2].appearance_count
    /\ ret[1].latest_turnover > ret[2].latest_turnover
    /\ ret[1].code \notin GetTop300Stocks(df, market, LatestWindowDate, call.category)
    /\ \E code \in Codes :
          DaysInTop(code) # {} /\ \A item \in Items : item.code # code

PullbackCalled == call.op = "pullback"

\* The position in the date index that days_ago steps back to.
ReferencePosition == PositionOf(call.date) - call.n

\* C7: get_pullback_stocks returns the empty list whenever baseDate is not in
\* the date index or days_ago steps back before the first date; otherwise every
\* item reports as reference date the date days_ago index positions before
\* baseDate.
C7_ReferenceDateByIndexPosition ==
    PullbackCalled =>
        IF call.date \notin DateSet \/ ReferencePosition < 1
        THEN ret = <<>> /\ raised = "none"
        ELSE \A item \in Items :
                /\ ReferencePosition <= Cardinality(DateSet)
                /\ item.extra = DateAt(ReferencePosition)

\* A result whose reference date is one index position and more than one
\* calendar day before the base date.
C7_Witness ==
    /\ PullbackCalled /\ raised = "none" /\ call.n = 1
    /\ Len(ret) > 0
    /\ ret[1].extra < call.date - 1

\* C8: when the reference date exists, the instruments get_pullback_stocks
\* returns are exactly those with a row on baseDate with change_pct < 0 that are
\* in the top 300 of the reference date for the category; the items carry the
\* baseDate values, are in descending order of turnover and are ranked 1..n.
C8_PullbackSetAndOrder ==
    (/\ PullbackCalled /\ raised = "none"
     /\ call.date \in DateSet
     /\ ReferencePosition \in 1..Cardinality(DateSet)) =>
        LET reference == DateAt(ReferencePosition)
            top == GetTop300Stocks(df, market, reference, call.category)
            expected == {r \in Range(df) :
                           r.date = call.date /\ r.change_pct < 0 /\ r.code \in top}
        IN /\ {item.code : item \in Items} = {r.code : r \in expected}
           /\ Len(ret) = Cardinality(expected)
           /\ \A i \in 1..Len(ret) :
                 /\ ret[i].rank = i
                 /\ ret[i].turnover = TurnoverOn(ret[i].code, call.date)
                 /\ ret[i].change_pct < 0
                 /\ i < Len(ret) => ret[i].turnover >= ret[i + 1].turnover

\* Two falling instruments returned in order of distinct turnovers, and a third
\* that fell on the base date and is left out: it was not in the top 300 of the
\* reference date.
C8_Witness ==
    /\ PullbackCalled /\ raised = "none" /\ call.n = 1
    /\ Len(ret) = 2
    /\ ret[1].turnover > ret[2].turnover
    /\ \E r \in Range(DayData(df, call.date)) :
          r.change_pct < 0 /\ \A item \in Items : item.code # r.code

RiseCalled == call.op = "consecutive"

\* The dates of the window of a consecutive-rise request: the call.n index
\* positions ending at the base date.
RiseWindow ==
    {d \in DateSet :
        /\ PositionOf(d) <= PositionOf(call.date)
        /\ PositionOf(d) > PositionOf(call.date) - call.n}

RisesOn(code, d) ==
    \E r \in Range(df) : r.date = d /\ r.code = code /\ r.change_pct > 0

\* C9: when baseDate has at least `days` index positions of history (days >= 1),
\* get_consecutive_rise_stocks returns exactly the instruments that are in the
\* top 300 of the earliest window day and have change_pct > 0 on every window
\* date, the earliest and baseDate included.  So an instrument that rises on the
\* three dates ending at the fourth and is in the top 300 of the first of them
\* is returned for days = 3, and when no instrument rises on the first date of
\* the table the result for days = 4 is empty.
C9_RiseSetIsSeedRisingEveryDay ==
    (/\ RiseCalled /\ raised = "none" /\ call.n >= 1
     /\ call.date \in DateSet
     /\ PositionOf(call.date) >= call.n) =>
        LET earliest == DateAt(PositionOf(call.date) - call.n + 1)
            seed == GetTop300Stocks(df, market, earliest, call.category)
        IN /\ {item.code : item \in Items}
                = {c \in seed : \A d \in RiseWindow : RisesOn(c, d)}
           /\ (/\ call.n = 3 /\ PositionOf(call.date) = 4
               /\ \E c \in seed : \A d \in RiseWindow : RisesOn(c, d)) => Len(ret) > 0
           /\ (/\ call.n = 4 /\ PositionOf(call.date) = 4
               /\ \A c \in Codes : ~RisesOn(c, DateAt(1))) => ret = <<>>

\* An instrument that falls on the first date of the table and rises on the
\* next three is returned for days = 3 at the fourth date.
C9_Witness ==
    /\ RiseCalled /\ raised = "none" /\ call.n = 3
    /\ call.date \in DateSet /\ PositionOf(call.date) = 4
    /\ Len(ret) = 1
    /\ ~RisesOn(ret[1].code, DateAt(1))
    /\ ret[1].extra = 3

\* C10 as claimed: no core query raises, whatever the table, the date and the
\* count parameter; it returns its empty result when the table is empty or the
\* date is not in it.
C10_AsClaimed ==
    call.op \in {"kr_day", "us_day", "frequent", "pullback", "consecutive"} =>
        /\ raised = "none"
        /\ (Len(df) = 0 \/ call.date \notin DateSet) =>
              \/ ret = <<>>
              \/ call.op = "frequent"
              \/ call.op = "kr_day" /\ ret = [trading_value |-> <<>>, change_rate |-> <<>>]
              \/ call.op = "us_day" /\ ret = UsEmptyResult

\* ------------------------------------------------------ the chart history

\* Stand for the windows 20 and 240 of the trailing averages, scaled down so
\* that a series can be longer than either.
Ma20Window == 2

Ma240Window == 3

\* Dates of the chart files: 1..MaxHistDate.
MaxHistDate == 4

\* The chart files: the first instrument has a row on any of the dates, with a
\* close of 0, 10 or 30 and an open that is 0 on a suspension day; the second
\* instrument may have one row; a file has the open/high/low columns or none
\* of them.  Sorted by date, then instrument, as the update scripts write it.
HistProfiles ==
    {[close |-> 10, open |-> 10], [close |-> 30, open |-> 10],
     [close |-> 0, open |-> 10], [close |-> 30, open |-> 0],
     [close |-> 10, open |-> 0]}

HistRow(d, code, p, ohlc) ==
    IF ohlc
    THEN [date |-> d, code |-> code, close |-> p.close, turnover |-> 1,
          open |-> p.open, high |-> Max(p.open, p.close),
          low |-> Min(p.open, p.close)]
    ELSE [date |-> d, code |-> code, close |-> p.close, turnover |-> 1]

RECURSIVE HistRowsFrom(_, _, _, _, _)
HistRowsFrom(d, D, f, withB, ohlc) ==
    IF d > MaxHistDate THEN <<>>
    ELSE (IF d \in D THEN <<HistRow(d, CodeSeq[1], f[d], ohlc)>> ELSE <<>>)
         \o (IF withB /\ d = 2
             THEN <<HistRow(d, CodeSeq[2], [close |-> 10, open |-> 10], ohlc)>>
             ELSE <<>>)
         \o HistRowsFrom(d + 1, D, f, withB, ohlc)

HistoryFiles ==
    UNION {{HistRowsFrom(1, D, f, withB, ohlc) :
               f \in [D -> HistProfiles], withB \in BOOLEAN, ohlc \in BOOLEAN} :
           D \in SUBSET (1..MaxHistDate)}

\* round(x, 0) and round(x, 2) of the quotient n / d (d > 0), to the nearest
\* and to the even neighbour at a tie.
RoundHalfEven(n, d) ==
    LET q == n \div d
        r == n % d
    IN IF 2 * r < d THEN q
       ELSE IF 2 * r > d THEN q + 1
       ELSE IF q % 2 = 0 THEN q ELSE q + 1

\* round(n / d, decimal_places) in hundredths.
RoundTo(n, d, decimal_places) ==
    IF decimal_places = 2 THEN RoundHalfEven(n * 100, d)
    ELSE RoundHalfEven(n, d) * 100

\* decimal_places = 2 if self.market == 'us' else 0
DecimalPlaces(mkt) == IF mkt = "us" THEN 2 ELSE 0

\* The rows of a frame in ascending order of date (sort_values('date')).
RECURSIVE SortByDate(_)
SortByDate(s) ==
    IF Len(s) <= 1 THEN s
    ELSE LET rest == SortByDate(Tail(s))
             h == Head(s)
             k == Cardinality({i \in 1..Len(rest) : rest[i].date < h.date})
         IN SubSeq(rest, 1, k) \o <<h>> \o SubSeq(rest, k + 1, Len(rest))

RECURSIVE SumCloses(_)
SumCloses(s) == IF Len(s) = 0 THEN 0 ELSE Head(s).close + SumCloses(Tail(s))

\* RollingWindow of one row, whatever the window.
RollingWindowOfOne(full, i, window) == SubSeq(full, i, i)

\* The rows rolling(window, min_periods=1) averages at position i of the full
\* series: the up-to-window rows ending there.
RollingWindow(full, i, window) == SubSeq(full, Max(1, i - window + 1), i)

\* has_ohlc: the open, high and low columns are all present.
HasOhlc(frame) ==
    Len(frame) > 0 /\ {"open", "high", "low"} \subseteq DOMAIN frame[1]

\* IsSuspended that never finds a suspension day.
IsSuspendedNever(row, has_ohlc) == FALSE

\* is_suspended = has_ohlc and float(row['open']) == 0
IsSuspended(row, has_ohlc) == has_ohlc /\ row.open = 0

HaltedColor == "#6B728080"

UpColor == "#EF535080"

DownColor == "#2196F380"

\* The 1-based positions in the full series of the rows stock_data holds, or
\* 0 when iloc[start_idx] is out of bounds (IndexError).
VisibleFrom(full, days, end_date) ==
    IF end_date # 0
    THEN LET before == Cardinality({i \in 1..Len(full) : full[i].date <= end_date})
         IN IF before > days
            THEN IF before - days >= before THEN 0
                 ELSE before - days + 1
            ELSE 1
    ELSE \* tail(days): the last days rows; all but the first |days| for days < 0
         IF days >= 0 THEN Max(1, Len(full) - days + 1)
         ELSE Min(Len(full), -days) + 1

EmptyHistory(end_date) ==
    [line |-> <<>>, candle |-> <<>>, volume |-> <<>>, change |-> <<>>,
     ma20 |-> <<>>, ma240 |-> <<>>, end_date |-> end_date]

\* The candle of one row: none on a suspension day; without the OHLC columns
\* the previous close (when there is one and it is not 0) stands for the open.
CandleOf(row, has_ohlc, has_prev, prev_close) ==
    IF IsSuspended(row, has_ohlc) THEN <<>>
    ELSE IF has_ohlc
    THEN <<[time |-> row.date, open |-> row.open, high |-> row.high,
            low |-> row.low, close |-> row.close]>>
    ELSE LET open_price == IF has_prev /\ prev_close # 0 THEN prev_close
                           ELSE row.close
         IN <<[time |-> row.date, open |-> open_price,
               high |-> Max(open_price, row.close),
               low |-> Min(open_price, row.close), close |-> row.close]>>

VolumeColor(row, has_ohlc, has_prev, prev_close) ==
    IF IsSuspended(row, has_ohlc) THEN HaltedColor
    ELSE IF row.close >= (IF has_prev /\ prev_close # 0 THEN prev_close
                          ELSE row.close)
    THEN UpColor ELSE DownColor

\* round(change_pct, 2) in hundredths of a percent; prev_close is the close of
\* the row the loop visited before, None at the first row of stock_data.
ChangeOf(row, has_prev, prev_close) ==
    IF has_prev /\ prev_close # 0
    THEN RoundHalfEven((row.close - prev_close) * 10000, prev_close)
    ELSE 0

RECURSIVE FlattenSeq(_)
FlattenSeq(ss) == IF Len(ss) = 0 THEN <<>> ELSE Head(ss) \o FlattenSeq(Tail(ss))

\* The dict get_stock_history returns for a matching instrument whose window
\* starts at position first of the full series.
HistoryResult(full, first, has_ohlc, mkt, end_date) ==
    LET n == Len(full) - first + 1
        rowAt(k) == full[first + k - 1]
        hasPrev(k) == k > 1
        prevClose(k) == IF k > 1 THEN full[first + k - 2].close ELSE 0
        ma(k, window) ==
            LET w == RollingWindow(full, first + k - 1, window)
            IN RoundTo(SumCloses(w), Len(w), DecimalPlaces(mkt))
    IN [line |-> [k \in 1..n |-> [time |-> rowAt(k).date, value |-> rowAt(k).close]],
        candle |-> FlattenSeq([k \in 1..n |->
                      CandleOf(rowAt(k), has_ohlc, hasPrev(k), prevClose(k))]),
        volume |-> [k \in 1..n |->
                      [time |-> rowAt(k).date, value |-> rowAt(k).turnover,
                       color |-> VolumeColor(rowAt(k), has_ohlc, hasPrev(k),
                                             prevClose(k))]],
        change |-> [k \in 1..n |->
                      [time |-> rowAt(k).date,
                       value |-> ChangeOf(rowAt(k), hasPrev(k), prevClose(k))]],
        ma20 |-> [k \in 1..n |->
                      [time |-> rowAt(k).date, value |-> ma(k, Ma20Window)]],
        ma240 |-> [k \in 1..n |->
                      [time |-> rowAt(k).date, value |-> ma(k, Ma240Window)]],
        end_date |-> end_date]

\* get_stock_history; end_date 0 stands for None.
GetStockHistory(stock_code, days, end_date) ==
    LET stock_data_full ==
            SortByDate(SelectSeq(df, LAMBDA r : r.code = stock_code))
        first == VisibleFrom(stock_data_full, days, end_date)
    IN /\ Loaded
       /\ call' = [op |-> "history", code |-> stock_code, n |-> days,
                   date |-> end_date, category |-> "-"]
       /\ IF Len(df) = 0 \/ Len(stock_data_full) = 0
          THEN ret' = EmptyHistory(end_date) /\ raised' = "none"
          ELSE IF first = 0
          THEN ret' = <<>> /\ raised' = "IndexError"
          ELSE /\ ret' = HistoryResult(stock_data_full, first, HasOhlc(df),
                                       market, end_date)
               /\ raised' = "none"
       /\ df' = Resident(df, stock_data_full)
       /\ UNCHANGED <<market, has_columns, stats, app, userVars>>

NextHistory ==
    \/ Return
    \/ LoadData(HistoryFiles)
    \/ \E stock_code \in {CodeSeq[1], CodeSeq[2], "Z"}, days \in -1..3,
          end_date \in 0..MaxHistDate :
          GetStockHistory(stock_code, days, end_date)

SpecHistory == Init /\ [][NextHistory]_vars

\* ------------------------------------------------------------ text columns

\* Text is a sequence of one-character strings.  str.upper() on the letters
\* the files and the requests use; every other character is left alone.
UpperChar(ch) == IF ch = "a" THEN "A" ELSE IF ch = "b" THEN "B" ELSE ch

Upper(t) == [i \in 1..Len(t) |-> UpperChar(t[i])]

\* str.strip(): the text without its leading and trailing blanks.
RECURSIVE StripLeft(_)
StripLeft(t) ==
    IF Len(t) > 0 /\ Head(t) = " " THEN StripLeft(Tail(t)) ELSE t

RECURSIVE StripRight(_)
StripRight(t) ==
    IF Len(t) > 0 /\ t[Len(t)] = " " THEN StripRight(SubSeq(t, 1, Len(t) - 1))
    ELSE t

Strip(t) == StripRight(StripLeft(t))

\* str.startswith and the `in` operator on text.
StartsWith(t, q) == Len(q) <= Len(t) /\ SubSeq(t, 1, Len(q)) = q

ContainsText(t, q) ==
    \E i \in 1..(Len(t) + 1) :
        i + Len(q) - 1 <= Len(t) /\ SubSeq(t, i, i + Len(q) - 1) = q

\* ---------------------------------------------------------- the gap screener

\* Dates of the gap files: 1..MaxGapDate.
MaxGapDate == 3

\* The gap files: the first instrument has a row on any of the dates, with a
\* close of 0, 10 or 20 and an open of 0 or 10; the second instrument may have
\* one row, with a larger turnover; and files of one row without the open
\* column.  An instrument's code is one character, its name is text.
GapProfiles ==
    {[close |-> 10, open |-> 10], [close |-> 20, open |-> 10],
     [close |-> 10, open |-> 0], [close |-> 0, open |-> 10]}

GapName(code) == IF code = CodeSeq[1] THEN <<"A", "b">> ELSE <<"C">>

GapRow(d, code, p, tv) ==
    [date |-> d, code |-> code, name |-> GapName(code), close |-> p.close,
     open |-> p.open, turnover |-> tv]

RECURSIVE GapRowsFrom(_, _, _, _)
GapRowsFrom(d, D, f, withB) ==
    IF d > MaxGapDate THEN <<>>
    ELSE (IF d \in D THEN <<GapRow(d, CodeSeq[1], f[d], 1)>> ELSE <<>>)
         \o (IF withB /\ d = 2
             THEN <<GapRow(d, CodeSeq[2], [close |-> 20, open |-> 10], 2)>>
             ELSE <<>>)
         \o GapRowsFrom(d + 1, D, f, withB)

GapFiles ==
    UNION {{GapRowsFrom(1, D, f, withB) :
               f \in [D -> GapProfiles], withB \in BOOLEAN} :
           D \in SUBSET (1..MaxGapDate)}
    \union {<<[date |-> 1, code |-> CodeSeq[1], name |-> GapName(CodeSeq[1]),
               close |-> 10, turnover |-> 1]>>}

\* A float that may be NaN is a sequence: empty for NaN, else its one value.
\* shift(1) / shift(-1) within the instrument's series sorted by date.
PriceAt(series, i, kind) ==
    IF kind = "prev_close"
    THEN IF i > 1 THEN <<series[i - 1].close>> ELSE <<>>
    ELSE IF kind = "next_open"
    THEN IF i < Len(series) THEN <<series[i + 1].open>> ELSE <<>>
    ELSE IF kind = "next_close"
    THEN IF i < Len(series) THEN <<series[i + 1].close>> ELSE <<>>
    ELSE IF kind = "open" THEN <<series[i].open>>
    ELSE <<series[i].close>>

\* base_col_map / compare_col_map: "-" where .get finds no column.
BaseCol(name) ==
    IF name \in {"prev_close", "open", "close"} THEN name ELSE "-"

CompareCol(name) ==
    IF name \in {"open", "close", "next_open", "next_close"} THEN name ELSE "-"

\* GapMa240 averaging however many closes there are.
GapMa240Partial(series, i) ==
    LET w == SubSeq(series, Max(1, i - Ma240Window + 1), i)
    IN <<[sum |-> SumCloses(w), count |-> Len(w)]>>

\* rolling(window=240, min_periods=240).mean(): NaN before the instrument has
\* a full window, then the sum of the window's closes over their count.
GapMa240(series, i) ==
    IF i < Ma240Window THEN <<>>
    ELSE LET w == SubSeq(series, i - Ma240Window + 1, i)
         IN <<[sum |-> SumCloses(w), count |-> Len(w)]>>

\* df_sorted with its derived columns: the rows by instrument, then date, each
\* with its instrument's series and its position in it.
GapSorted(frame) ==
    FlattenSeq([c \in 1..Len(CodeSeq) |->
        LET series == SortByDate(SelectSeq(frame, LAMBDA r : r.code = CodeSeq[c]))
        IN [i \in 1..Len(series) |->
               [row |-> series[i], series |-> series, i |-> i,
                ma240 |-> GapMa240(series, i)]]])

\* (compare - base) / base * 100 as pandas computes it: NaN when either price
\* is NaN and for 0 / 0, +inf for a positive price over 0, else the quotient
\* num / den with den > 0.  Prices are never negative.
GapRate(e, base_col, compare_col) ==
    LET base == PriceAt(e.series, e.i, base_col)
        compare == PriceAt(e.series, e.i, compare_col)
    IN IF base = <<>> \/ compare = <<>> THEN [kind |-> "nan", num |-> 0, den |-> 1]
       ELSE IF base[1] = 0
       THEN IF compare[1] = 0 THEN [kind |-> "nan", num |-> 0, den |-> 1]
            ELSE [kind |-> "inf", num |-> 1, den |-> 1]
       ELSE [kind |-> "num", num |-> (compare[1] - base[1]) * 100, den |-> base[1]]

\* min_rate <= rate <= max_rate, for finite bounds.
RateInRange(rate, min_rate, max_rate) ==
    /\ rate.kind = "num"
    /\ rate.num >= min_rate * rate.den
    /\ rate.num <= max_rate * rate.den

RatePositive(rate) == rate.kind = "inf" \/ (rate.kind = "num" /\ rate.num > 0)

RateNegative(rate) == rate.kind = "num" /\ rate.num < 0

\* A stage is the triple (base, compare, direction); "" stands for a parameter
\* that is None or empty.
NoStage == [base |-> "", compare |-> "", direction |-> ""]

\* An optional stage: skipped unless its three parameters are given and name
\* columns; then rows with a NaN rate are dropped and up / down keep the rows
\* with rate > 0 / rate < 0.
StageFilter(rows, stage) ==
    IF stage.base = "" \/ stage.compare = "" \/ stage.direction = "" THEN rows
    ELSE IF BaseCol(stage.base) = "-" \/ CompareCol(stage.compare) = "-" THEN rows
    ELSE LET rate(e) == GapRate(e, BaseCol(stage.base), CompareCol(stage.compare))
             defined == SelectSeq(rows, LAMBDA e : rate(e).kind # "nan")
         IN IF stage.direction = "up"
            THEN SelectSeq(defined, LAMBDA e : RatePositive(rate(e)))
            ELSE IF stage.direction = "down"
            THEN SelectSeq(defined, LAMBDA e : RateNegative(rate(e)))
            ELSE defined

\* The instrument filter: the code or the name contains the upper-cased,
\* stripped filter (a filter of letters; <<>> stands for None or "").
TickerFilter(rows, ticker_filter) ==
    IF ticker_filter = <<>> THEN rows
    ELSE LET f == Strip(Upper(ticker_filter))
         IN SelectSeq(rows, LAMBDA e :
                \/ ContainsText(Upper(<<e.row.code>>), f)
                \/ ContainsText(Upper(e.row.name), f))

\* sort_values([date, turnover], ascending=[True, False]): a sort on several
\* columns is a stable lexsort.
RECURSIVE GapSort(_)
GapSort(rows) ==
    IF Len(rows) <= 1 THEN rows
    ELSE LET rest == GapSort(Tail(rows))
             h == Head(rows)
             k == Cardinality({j \in 1..Len(rest) :
                     \/ rest[j].row.date < h.row.date
                     \/ /\ rest[j].row.date = h.row.date
                        /\ rest[j].row.turnover > h.row.turnover})
         IN SubSeq(rest, 1, k) \o <<h>> \o SubSeq(rest, k + 1, Len(rest))

\* ma240_position: None ("null") unless the average is not NaN and positive.
Ma240Position(close, ma240) ==
    IF ma240 = <<>> \/ ma240[1].sum <= 0 THEN "null"
    ELSE IF close * ma240[1].count >= ma240[1].sum THEN "above" ELSE "below"

\* One item of the result; rates and averages in hundredths.
GapItem(e, base_col, compare_col) ==
    LET rate == GapRate(e, base_col, compare_col)
    IN [date |-> e.row.date, code |-> e.row.code, close |-> e.row.close,
        rate |-> RoundHalfEven(rate.num * 100, rate.den),
        turnover |-> e.row.turnover,
        ma240 |-> IF e.ma240 = <<>> THEN <<>>
                  ELSE <<RoundHalfEven(e.ma240[1].sum * 100, e.ma240[1].count)>>,
        ma240_position |-> Ma240Position(e.row.close, e.ma240)]

\* GapDateRange that shifts within the date range only.
GapDateRangeThenShift(frame, start_date, end_date) ==
    GapSorted(SelectSeq(frame, LAMBDA r : r.date >= start_date /\ r.date <= end_date))

\* df_filtered: the rows of df_sorted within [start_date, end_date].
GapDateRange(frame, start_date, end_date) ==
    SelectSeq(GapSorted(frame),
              LAMBDA e : e.row.date >= start_date /\ e.row.date <= end_date)

\* The list get_gap_analysis returns on a table with the open column.
GapResult(frame, a) ==
    LET base_col == IF BaseCol(a.base_price) = "-" THEN "prev_close"
                    ELSE BaseCol(a.base_price)
        compare_col == IF CompareCol(a.compare_price) = "-" THEN "open"
                       ELSE CompareCol(a.compare_price)
        df_filtered == TickerFilter(GapDateRange(frame, a.start_date, a.end_date),
                                    a.ticker_filter)
        df_result == SelectSeq(df_filtered, LAMBDA e :
                         RateInRange(GapRate(e, base_col, compare_col),
                                     a.min_rate, a.max_rate))
        staged == StageFilter(StageFilter(df_result, a.extra), a.detail)
        sorted == GapSort(staged)
    IN [k \in 1..Len(sorted) |-> GapItem(sorted[k], base_col, compare_col)]

\* get_gap_analysis (the US router's /gap-analysis)
GetGapAnalysis(a) ==
    /\ Loaded
    /\ market = "us"
    /\ call' = [op |-> "gap", date |-> a.start_date, n |-> 0, category |-> "-",
                args |-> a]
    /\ IF Len(df) = 0
       THEN ret' = <<>> /\ raised' = "none"
       ELSE IF "open" \notin DOMAIN df[1]
       THEN \* df_sorted.groupby(code)['open'] without the column
            ret' = <<>> /\ raised' = "KeyError"
       ELSE ret' = GapResult(df, a) /\ raised' = "none"
    /\ df' = Resident(df, [i \in 1..Len(GapSorted(df)) |-> GapSorted(df)[i].row])
    /\ UNCHANGED <<market, has_columns, stats, app, userVars>>

\* The requests: three date ranges, six pairs of price kinds, two rate ranges,
\* and a choice of optional stages and instrument filters.
GapDateRanges == {<<1, MaxGapDate>>, <<2, 2>>, <<3, 2>>}

GapPricePairs ==
    {<<"prev_close", "open">>, <<"prev_close", "close">>, <<"open", "close">>,
     <<"close", "next_open">>, <<"close", "next_close">>, <<"x", "x">>}

GapRateRanges == {<<0, 100>>, <<-100, 0>>}

GapExtraStages ==
    {NoStage,
     [base |-> "open", compare |-> "close", direction |-> ""],
     [base |-> "open", compare |-> "close", direction |-> "up"],
     [base |-> "open", compare |-> "close", direction |-> "down"],
     [base |-> "close", compare |-> "next_close", direction |-> "flat"]}

GapDetailStages ==
    {NoStage, [base |-> "close", compare |-> "next_open", direction |-> "up"]}

GapTickerFilters == {<<>>, <<"b">>}

GapRequests ==
    {[start_date |-> dr[1], end_date |-> dr[2], base_price |-> pp[1],
      compare_price |-> pp[2], min_rate |-> rr[1], max_rate |-> rr[2],
      extra |-> ex, detail |-> dt, ticker_filter |-> tf] :
        dr \in GapDateRanges, pp \in GapPricePairs,
        rr \in GapRateRanges, ex \in GapExtraStages, dt \in GapDetailStages,
        tf \in GapTickerFilters}

NextGap ==
    \/ Return
    \/ LoadData(GapFiles)
    \/ \E a \in GapRequests : GetGapAnalysis(a)

SpecGap == Init /\ [][NextGap]_vars

\* ------------------------------------------------------------- the search

\* Rows per search file.
MaxSearchRows == 3

\* The instruments of the search files, (code, name) as text: the codes AA,
\* AAPL and BAAPL, a lower-case aa, and instruments that match AA by name only.
SearchPool ==
    {[code |-> <<"A", "A">>, name |-> <<"b">>],
     [code |-> <<"A", "A", "P", "L">>, name |-> <<"A", "B">>],
     [code |-> <<"B", "A", "A", "P", "L">>, name |-> <<"B">>],
     [code |-> <<"B">>, name |-> <<"A", "a", "B">>],
     [code |-> <<"P", "L">>, name |-> <<"B", "A", "A">>],
     [code |-> <<"a", "a">>, name |-> <<"L">>]}

\* The search files: up to MaxSearchRows different instruments on the first
\* date in any order, and possibly the first of them again on the second date.
SearchFiles ==
    LET orders == UNION {{f \in [1..n -> SearchPool] :
                            \A i, j \in 1..n : i # j => f[i] # f[j]} :
                         n \in 0..MaxSearchRows}
        rowsOf(f) == [i \in 1..Len(f) |->
                         [date |-> 1, code |-> f[i].code, name |-> f[i].name]]
    IN {rowsOf(f) : f \in orders}
       \union {rowsOf(f) \o <<[date |-> 2, code |-> f[1].code, name |-> f[1].name]>> :
                 f \in {g \in orders : Len(g) > 0}}

\* df[[code, name]].drop_duplicates(): the first occurrence of every pair.
UniqueStocks(frame) ==
    LET pair(i) == [code |-> frame[i].code, name |-> frame[i].name]
        first == {i \in 1..Len(frame) : \A j \in 1..(i - 1) : pair(j) # pair(i)}
        idx == SortedSeqOfSet(first)
    IN [k \in 1..Len(idx) |-> pair(idx[k])]

\* SearchBucket testing the name's start before the code's.
SearchBucketNameFirst(stock, query_upper) ==
    LET code == Upper(stock.code)
        name == Upper(stock.name)
    IN IF code = query_upper THEN 1
       ELSE IF StartsWith(name, query_upper) THEN 3
       ELSE IF StartsWith(code, query_upper) THEN 2
       ELSE IF ContainsText(code, query_upper) THEN 4
       ELSE IF ContainsText(name, query_upper) THEN 5
       ELSE 0

\* The list the if / elif chain appends a stock to: 1 exact_code, 2
\* starts_code, 3 starts_name, 4 contains_code, 5 contains_name, 0 none.
SearchBucket(stock, query_upper) ==
    LET code == Upper(stock.code)
        name == Upper(stock.name)
    IN IF code = query_upper THEN 1
       ELSE IF StartsWith(code, query_upper) THEN 2
       ELSE IF StartsWith(name, query_upper) THEN 3
       ELSE IF ContainsText(code, query_upper) THEN 4
       ELSE IF ContainsText(name, query_upper) THEN 5
       ELSE 0

\* Python's s[:n]: the first n elements, all but the last |n| for n < 0.
SliceTo(s, n) ==
    IF n >= 0 THEN SubSeq(s, 1, Min(n, Len(s)))
    ELSE SubSeq(s, 1, Max(0, Len(s) + n))

\* The list search_stocks returns.
SearchResult(frame, query, limit) ==
    IF Len(frame) = 0 \/ Len(query) = 0 THEN <<>>
    ELSE LET query_upper == Strip(Upper(query))
             unique_stocks == UniqueStocks(frame)
             bucket(b) == SelectSeq(unique_stocks,
                                    LAMBDA st : SearchBucket(st, query_upper) = b)
         IN SliceTo(bucket(1) \o bucket(2) \o bucket(3) \o bucket(4) \o bucket(5),
                    limit)

\* search_stocks
SearchStocks(query, limit) ==
    /\ Loaded
    /\ call' = [op |-> "search", date |-> 0, n |-> limit, category |-> "-",
                query |-> query]
    /\ ret' = SearchResult(df, query, limit)
    /\ raised' = "none"
    /\ UNCHANGED <<market, df, has_columns, stats, app, userVars>>

SearchQueries ==
    {<<>>, <<"A", "A">>, <<"a", "a">>, <<" ", "A", "a", " ">>, <<"B">>, <<" ">>,
     <<"P", "L", "L">>}

NextSearch ==
    \/ Return
    \/ LoadData(SearchFiles)
    \/ \E query \in SearchQueries, limit \in -1..MaxSearchRows :
          SearchStocks(query, limit)

SpecSearch == Init /\ [][NextSearch]_vars

\* -------------------------------------------------- chart history: C11 - C14

HistoryCalled == call.op = "history"

HistoryReturned == HistoryCalled /\ raised = "none"

\* The dates on which the requested instrument has a row, and its row on one.
SeriesDates == {r.date : r \in {q \in Range(df) : q.code = call.code}}

RowOn(d) == CHOOSE r \in Range(df) : r.code = call.code /\ r.date = d

\* The last n dates of a set of dates.
LastDates(S, n) == {d \in S : Cardinality({x \in S : x >= d}) <= n}

\* The visible window as the specification describes it: with an end date the
\* last `days` rows dated <= endDate and every row after it, without one the
\* last `days` rows.
ExpectedWindow ==
    IF call.date # 0
    THEN LastDates({d \in SeriesDates : d <= call.date}, call.n)
           \union {d \in SeriesDates : d > call.date}
    ELSE LastDates(SeriesDates, call.n)

TimesOf(list) == [i \in 1..Len(list) |-> list[i].time]

SuspensionDay(d) == HasOhlc(df) /\ RowOn(d).open = 0

\* C11: for days >= 0, every row of the visible window contributes exactly one
\* line entry and one volume entry, in date order; it contributes a candle
\* entry if and only if it is not a suspension day (open = 0 with the OHLC
\* columns present); the volume entry has the halted colour exactly on a
\* suspension day and the up or down colour otherwise.
C11_LineVolumeAlwaysCandleUnlessSuspended ==
    (HistoryReturned /\ call.n >= 0) =>
        /\ TimesOf(ret.line) = SortedSeqOfSet(ExpectedWindow)
        /\ TimesOf(ret.volume) = TimesOf(ret.line)
        /\ \A i \in 1..Len(ret.candle) : ret.candle[i].time \in ExpectedWindow
        /\ \A d \in ExpectedWindow :
              /\ Cardinality({i \in 1..Len(ret.candle) : ret.candle[i].time = d})
                   = IF SuspensionDay(d) THEN 0 ELSE 1
              /\ \A i \in 1..Len(ret.volume) :
                    ret.volume[i].time = d =>
                       IF SuspensionDay(d) THEN ret.volume[i].color = HaltedColor
                       ELSE ret.volume[i].color \in {UpColor, DownColor}

\* A window with a suspension day and a day that closed lower: the candle list
\* is shorter than the line list, one volume bar is halted and one is down.
C11_Witness ==
    /\ HistoryReturned /\ call.n >= 2
    /\ Len(ret.candle) > 0 /\ Len(ret.candle) < Len(ret.line)
    /\ Len(ret.volume) = Len(ret.line)
    /\ \E i \in 1..Len(ret.volume) : ret.volume[i].color = HaltedColor
    /\ \E i \in 1..Len(ret.volume) : ret.volume[i].color = DownColor

RECURSIVE SumClosesOn(_)
SumClosesOn(D) ==
    IF D = {} THEN 0
    ELSE LET d == CHOOSE x \in D : TRUE
         IN RowOn(d).close + SumClosesOn(D \ {d})

\* The mean of the closes of the up-to-window rows of the instrument's full
\* series that end at a date, at the precision the market reports.
TrailingMean(d, window) ==
    LET D == LastDates({x \in SeriesDates : x <= d}, window)
    IN RoundTo(SumClosesOn(D), Cardinality(D), DecimalPlaces(market))

\* C12: ma20 and ma240 each have exactly one entry per visible row (so neither
\* is empty once a row is visible), and the value at a date is the mean of the
\* closes of the up-to-20 (Ma20Window), resp. up-to-240 (Ma240Window), most
\* recent rows of the instrument's full series ending at that date, rounded to
\* 0 decimals for KR and 2 for US: it does not depend on days or endDate.
C12_AveragesOverFullSeries ==
    HistoryReturned =>
        /\ TimesOf(ret.ma20) = TimesOf(ret.line)
        /\ TimesOf(ret.ma240) = TimesOf(ret.line)
        /\ \A i \in 1..Len(ret.line) :
              /\ ret.ma20[i].value = TrailingMean(ret.line[i].time, Ma20Window)
              /\ ret.ma240[i].value = TrailingMean(ret.line[i].time, Ma240Window)

\* A window of one row whose averages reach back to rows outside the window:
\* neither is the row's close and the two differ.
C12_Witness ==
    /\ HistoryReturned /\ call.n = 1
    /\ Len(ret.line) = 1 /\ Len(ret.ma20) = 1 /\ Len(ret.ma240) = 1
    /\ ret.ma20[1].value # 100 * ret.line[1].value
    /\ ret.ma240[1].value # ret.ma20[1].value
    /\ ret.ma240[1].value # 100 * ret.line[1].value

\* C13 as claimed: for every days >= 0 the visible window of an instrument with
\* rows is the one the specification describes, with and without an end date.
C13_AsClaimed ==
    (HistoryCalled /\ call.n >= 0 /\ SeriesDates # {}) =>
        /\ raised = "none"
        /\ TimesOf(ret.line) = SortedSeqOfSet(ExpectedWindow)

\* The same for days >= 1, where the code does what C13 says.
C13_ForPositiveDays ==
    (HistoryCalled /\ call.n >= 1 /\ SeriesDates # {}) =>
        /\ raised = "none"
        /\ TimesOf(ret.line) = SortedSeqOfSet(ExpectedWindow)

\* The change of a date against the instrument's preceding row in the full
\* series: 0 without one or when its close is 0.
ChangeAgainst(d, before) ==
    IF before = {} THEN 0
    ELSE LET prev == CHOOSE x \in before : \A y \in before : y <= x
             prevClose == RowOn(prev).close
         IN IF prevClose = 0 THEN 0
            ELSE RoundHalfEven((RowOn(d).close - prevClose) * 10000, prevClose)

PrecedingCloseIsZero(before) ==
    LET prev == CHOOSE x \in before : \A y \in before : y <= x
    IN RowOn(prev).close = 0

\* C14 as claimed: the change of every visible date is (close - prevClose) /
\* prevClose * 100 rounded to 2 decimals, prevClose being the instrument's
\* close on its preceding row, and is 0 only when there is no preceding row or
\* its close is 0.
C14_AsClaimed ==
    HistoryReturned =>
        \A i \in 1..Len(ret.change) :
            LET d == ret.change[i].time
                before == {x \in SeriesDates : x < d}
            IN /\ ret.change[i].value = ChangeAgainst(d, before)
               /\ ret.change[i].value = 0 =>
                     (before = {} \/ PrecedingCloseIsZero(before))

\* What the code computes: the change against the preceding row of the visible
\* window, 0 for the first visible row.
C14_AgainstPrecedingVisibleRow ==
    HistoryReturned =>
        /\ TimesOf(ret.change) = TimesOf(ret.line)
        /\ \A i \in 1..Len(ret.change) :
              LET d == ret.change[i].time
                  before == {x \in SeriesDates : x < d /\ i > 1}
              IN ret.change[i].value = ChangeAgainst(d, before)

\* ---------------------------------------------------- gap screener: C15 - C17

GapReturned == call.op = "gap" /\ raised = "none"

\* The dates on which an instrument has a row, and its row on one.
DatesOfCode(code) == {r.date : r \in {q \in Range(df) : q.code = code}}

RowOfCode(code, d) == CHOOSE r \in Range(df) : r.code = code /\ r.date = d

\* A price of an instrument's row by kind, read from the whole table: the close
\* of its immediately preceding row, the open or close of its immediately
\* following row, or its own open or close; <<>> when there is no such row.
PriceByKind(code, d, kind) ==
    LET earlier == {x \in DatesOfCode(code) : x < d}
        later == {x \in DatesOfCode(code) : x > d}
        prev == CHOOSE x \in earlier : \A y \in earlier : y <= x
        next == CHOOSE x \in later : \A y \in later : x <= y
    IN IF kind = "prev_close"
       THEN IF earlier = {} THEN <<>> ELSE <<RowOfCode(code, prev).close>>
       ELSE IF kind = "next_open"
       THEN IF later = {} THEN <<>> ELSE <<RowOfCode(code, next).open>>
       ELSE IF kind = "next_close"
       THEN IF later = {} THEN <<>> ELSE <<RowOfCode(code, next).close>>
       ELSE IF kind = "open" THEN <<RowOfCode(code, d).open>>
       ELSE <<RowOfCode(code, d).close>>

\* The rate (compare - base) / base * 100 of a row is definable, and lies in
\* [lo, hi].
RateDefinable(code, d, baseKind, compareKind) ==
    /\ PriceByKind(code, d, baseKind) # <<>>
    /\ PriceByKind(code, d, compareKind) # <<>>
    /\ PriceByKind(code, d, baseKind)[1] # 0

RateWithin(code, d, baseKind, compareKind, lo, hi) ==
    LET b == PriceByKind(code, d, baseKind)[1]
        c == PriceByKind(code, d, compareKind)[1]
    IN (c - b) * 100 >= lo * b /\ (c - b) * 100 <= hi * b

PrimaryKindsNamed ==
    /\ call.args.base_price \in {"prev_close", "open", "close"}
    /\ call.args.compare_price \in {"open", "close", "next_open", "next_close"}

\* C15: every row get_gap_analysis returns has a date within [startDate,
\* endDate] and a primary rate (compare - base) / base * 100, reported rounded
\* to 2 decimals, with minRate <= rate <= maxRate, the lag and lead prices
\* being those of the instrument's neighbouring rows in the full series, in or
\* out of the date range; and with no optional stage and no instrument filter
\* every row of the range with such a rate is returned.
C15_GapRowsInRangeWithPrimaryRate ==
    (GapReturned /\ PrimaryKindsNamed) =>
        LET a == call.args
        IN /\ \A i \in 1..Len(ret) :
                 /\ ret[i].date >= a.start_date /\ ret[i].date <= a.end_date
                 /\ RateDefinable(ret[i].code, ret[i].date,
                                  a.base_price, a.compare_price)
                 /\ RateWithin(ret[i].code, ret[i].date, a.base_price,
                               a.compare_price, a.min_rate, a.max_rate)
                 /\ LET b == PriceByKind(ret[i].code, ret[i].date, a.base_price)[1]
                        c == PriceByKind(ret[i].code, ret[i].date, a.compare_price)[1]
                    IN ret[i].rate = RoundHalfEven((c - b) * 10000, b)
           /\ (a.extra = NoStage /\ a.detail = NoStage /\ a.ticker_filter = <<>>) =>
                 \A r \in Range(df) :
                    (/\ r.date >= a.start_date /\ r.date <= a.end_date
                     /\ RateDefinable(r.code, r.date, a.base_price, a.compare_price)
                     /\ RateWithin(r.code, r.date, a.base_price, a.compare_price,
                                   a.min_rate, a.max_rate)) =>
                        \E i \in 1..Len(ret) :
                            ret[i].code = r.code /\ ret[i].date = r.date

\* A range of one date: the returned row's rate is taken against the close of
\* a row before the range, and its next row lies after the range.
C15_Witness ==
    /\ GapReturned
    /\ call.args.start_date = 2 /\ call.args.end_date = 2
    /\ call.args.base_price = "prev_close" /\ call.args.compare_price = "close"
    /\ call.args.extra = NoStage /\ call.args.detail = NoStage
    /\ Len(ret) = 1 /\ ret[1].rate = 10000
    /\ DatesOfCode(ret[1].code) = 1..MaxGapDate

\* An optional stage of the request is in force: its three parameters are
\* supplied and name columns.
StageInForce(stage) ==
    /\ stage.base # "" /\ stage.compare # "" /\ stage.direction # ""
    /\ BaseCol(stage.base) # "-" /\ CompareCol(stage.compare) # "-"

\* The rate of a returned row at a stage in force is definable and has the
\* sign the stage asks for.
StageRateDefinedAndSigned(item, stage) ==
    /\ RateDefinable(item.code, item.date, stage.base, stage.compare)
    /\ LET b == PriceByKind(item.code, item.date, stage.base)[1]
           c == PriceByKind(item.code, item.date, stage.compare)[1]
       IN /\ stage.direction = "up" => c > b
          /\ stage.direction = "down" => c < b

\* A stage that is not in force does not filter: with no filter at all, every
\* row of the range with a primary rate in range is returned.
UnsuppliedStagesDoNotFilter ==
    LET a == call.args
    IN (~StageInForce(a.extra) /\ ~StageInForce(a.detail) /\ a.ticker_filter = <<>>) =>
          \A r \in Range(df) :
             (/\ r.date >= a.start_date /\ r.date <= a.end_date
              /\ RateDefinable(r.code, r.date, a.base_price, a.compare_price)
              /\ RateWithin(r.code, r.date, a.base_price, a.compare_price,
                            a.min_rate, a.max_rate)) =>
                 \E i \in 1..Len(ret) : ret[i].code = r.code /\ ret[i].date = r.date

\* C16 as claimed: no returned row has an undefinable rate at the primary stage
\* or at an optional stage in force (a missing lag or lead, or a base price of
\* zero); a stage filters only when its three parameters are supplied, and
\* then every returned row has a stage rate > 0 for up and < 0 for down.
C16_AsClaimed ==
    (GapReturned /\ PrimaryKindsNamed) =>
        LET a == call.args
        IN /\ \A i \in 1..Len(ret) :
                 /\ RateDefinable(ret[i].code, ret[i].date,
                                  a.base_price, a.compare_price)
                 /\ StageInForce(a.extra) => StageRateDefinedAndSigned(ret[i], a.extra)
                 /\ StageInForce(a.detail) => StageRateDefinedAndSigned(ret[i], a.detail)
           /\ UnsuppliedStagesDoNotFilter

\* What the code does: as claimed, except that at an optional stage asking for
\* up a row whose base price is zero and whose compare price is positive is
\* kept.
C16_ExceptZeroBaseGoingUp ==
    (GapReturned /\ PrimaryKindsNamed) =>
        LET a == call.args
            ZeroBaseUp(item, stage) ==
                /\ stage.direction # "down"
                /\ PriceByKind(item.code, item.date, stage.base) = <<0>>
                /\ PriceByKind(item.code, item.date, stage.compare) # <<>>
                /\ PriceByKind(item.code, item.date, stage.compare)[1] > 0
        IN /\ \A i \in 1..Len(ret) :
                 /\ RateDefinable(ret[i].code, ret[i].date,
                                  a.base_price, a.compare_price)
                 /\ StageInForce(a.extra) =>
                       \/ StageRateDefinedAndSigned(ret[i], a.extra)
                       \/ ZeroBaseUp(ret[i], a.extra)
                 /\ StageInForce(a.detail) =>
                       \/ StageRateDefinedAndSigned(ret[i], a.detail)
                       \/ ZeroBaseUp(ret[i], a.detail)
           /\ UnsuppliedStagesDoNotFilter

RECURSIVE SumClosesOfCode(_, _)
SumClosesOfCode(code, D) ==
    IF D = {} THEN 0
    ELSE LET d == CHOOSE x \in D : TRUE
         IN RowOfCode(code, d).close + SumClosesOfCode(code, D \ {d})

\* C17: the ma240_position of every returned row is null when the instrument
\* has fewer than 240 (Ma240Window) rows up to and including that row, or when
\* the sum (so the average) of its 240 most recent closes is not positive;
\* otherwise it is "above" if the close is at least that average and "below"
\* if it is less.
C17_Ma240PositionNeedsFullWindow ==
    GapReturned =>
        \A i \in 1..Len(ret) :
            LET upTo == {d \in DatesOfCode(ret[i].code) : d <= ret[i].date}
                sum == SumClosesOfCode(ret[i].code, LastDates(upTo, Ma240Window))
            IN ret[i].ma240_position =
                  IF Cardinality(upTo) < Ma240Window \/ sum <= 0 THEN "null"
                  ELSE IF ret[i].close * Ma240Window >= sum THEN "above"
                  ELSE "below"

\* A result with a row before its instrument's full window (null) and a later
\* row of the instrument that closed below its average.
C17_Witness ==
    /\ GapReturned
    /\ \E i \in 1..Len(ret) :
          /\ ret[i].ma240_position = "null"
          /\ Cardinality({d \in DatesOfCode(ret[i].code) : d <= ret[i].date})
               < Ma240Window
    /\ \E i \in 1..Len(ret) : ret[i].ma240_position = "below"

\* ------------------------------------------------------------- search: C18

SearchReturned == call.op = "search" /\ raised = "none"

\* The query as it is matched: upper-cased and stripped of surrounding blanks.
MatchedQuery == Strip(Upper(call.query))

\* The first bucket an instrument falls in, without regard to case: 1 its code
\* is the query, 2 its code starts with it, 3 its name starts with it, 4 its
\* code contains it, 5 its name contains it; 0 when it does not match.
FirstBucket(st) ==
    LET q == MatchedQuery
        code == Upper(st.code)
        name == Upper(st.name)
        applies == {b \in 1..5 :
                      \/ b = 1 /\ code = q
                      \/ b = 2 /\ StartsWith(code, q)
                      \/ b = 3 /\ StartsWith(name, q)
                      \/ b = 4 /\ ContainsText(code, q)
                      \/ b = 5 /\ ContainsText(name, q)}
    IN IF applies = {} THEN 0
       ELSE CHOOSE b \in applies : \A c \in applies : b <= c

\* The position of the first row of the table with an instrument's pair.
FirstRowOf(st) ==
    CHOOSE i \in 1..Len(df) :
        /\ df[i].code = st.code /\ df[i].name = st.name
        /\ \A j \in 1..(i - 1) : df[j].code # st.code \/ df[j].name # st.name

\* One instrument goes before another in the search order.
SearchBefore(s1, s2) ==
    \/ FirstBucket(s1) < FirstBucket(s2)
    \/ FirstBucket(s1) = FirstBucket(s2) /\ FirstRowOf(s1) < FirstRowOf(s2)

TablePairs == {[code |-> r.code, name |-> r.name] : r \in Range(df)}

\* C18: for limit >= 0, search_stocks returns distinct (code, name) pairs of
\* the table that match the query without regard to case, each once, ordered
\* by first applicable bucket (exact code, code starts with, name starts with,
\* code contains, name contains) and by input order inside a bucket; the result
\* is the first `limit` entries of that order: a matching pair is left out only
\* when the result holds limit entries that all go before it.  For the
\* instruments AAPL, AA, BAAPL and the query AA the order is AA, AAPL, BAAPL,
\* and an empty query gives an empty result.
C18_SearchBucketsInOrder ==
    (SearchReturned /\ call.n >= 0) =>
        /\ Len(ret) <= call.n
        /\ Len(call.query) = 0 => ret = <<>>
        /\ \A i \in 1..Len(ret) : ret[i] \in TablePairs /\ FirstBucket(ret[i]) # 0
        /\ \A i, j \in 1..Len(ret) : i < j => SearchBefore(ret[i], ret[j])
        /\ Len(call.query) > 0 =>
              \A st \in TablePairs :
                 (FirstBucket(st) # 0 /\ st \notin Range(ret)) =>
                     /\ Len(ret) = call.n
                     /\ \A i \in 1..Len(ret) : SearchBefore(ret[i], st)
        /\ (/\ [i \in 1..Len(df) |-> df[i].code]
                 = <<(<<"A", "A", "P", "L">>), (<<"A", "A">>),
                     (<<"B", "A", "A", "P", "L">>)>>
            /\ call.query = <<"A", "A">> /\ call.n >= 3) =>
              [i \in 1..Len(ret) |-> ret[i].code]
                 = <<(<<"A", "A">>), (<<"A", "A", "P", "L">>),
                     (<<"B", "A", "A", "P", "L">>)>>

\* A lower-case query with blanks around it: an exact code match, then a code
\* that starts with the query, then an instrument that matches by the start of
\* its name, the last of them earlier in the table than the first.
C18_Witness ==
    /\ SearchReturned /\ call.query = <<" ", "A", "a", " ">> /\ call.n = 3
    /\ Len(ret) = 3
    /\ FirstBucket(ret[1]) = 1 /\ FirstBucket(ret[2]) = 2 /\ FirstBucket(ret[3]) = 3
    /\ FirstRowOf(ret[3]) < FirstRowOf(ret[1])

\* ----------------------------------------------------------- load_data: C19

\* load_data has just returned, after a failed or a successful load.
LoadFailed == call.op = "load_data" /\ call.category \in {"missing", "parse_error"}

LoadSucceeded == call.op = "load_data" /\ call.category = "parsed"

\* A query is being answered by a manager whose load found no file or raised:
\* its frame is still the one __init__ made.
QueryAfterFailedLoad ==
    /\ call.op \in {"kr_day", "us_day", "frequent", "pullback", "consecutive",
                    "history", "search", "gap"}
    /\ ~has_columns

LatestDate == CHOOSE d \in DateSet : \A x \in DateSet : x <= d

\* load_data never raises; a failed load leaves the table empty; a successful
\* load of a table with rows sets min_year <= max_year and initial_year /
\* initial_month to the year and month of the latest date.
LoadFailsSoftAndSetsYears ==
    /\ call.op = "load_data" => raised = "none"
    /\ LoadFailed => (df = <<>> /\ stats = InitialStats)
    /\ (LoadSucceeded /\ Len(df) > 0) =>
          /\ stats.min_year <= stats.max_year
          /\ stats.initial_year = YearOf(LatestDate)
          /\ stats.initial_month = MonthOf(LatestDate)
          /\ stats.max_year = stats.initial_year

\* C19 as claimed: load_data fails soft and sets the year fields, and after a
\* missing-file load every query returns its empty result.
C19_AsClaimed ==
    /\ LoadFailsSoftAndSetsYears
    /\ QueryAfterFailedLoad =>
          /\ raised = "none"
          /\ \/ ret = <<>>
             \/ call.op = "kr_day" /\ ret = [trading_value |-> <<>>, change_rate |-> <<>>]
             \/ call.op = "us_day" /\ ret = UsEmptyResult
             \/ call.op = "history" /\ ret = EmptyHistory(call.date)

\* What holds: the same, the day snapshot excepted.
C19_ExceptDaySnapshot ==
    /\ LoadFailsSoftAndSetsYears
    /\ (QueryAfterFailedLoad /\ call.op \notin {"kr_day", "us_day"}) =>
          /\ raised = "none"
          /\ ret = <<>> \/ (call.op = "history" /\ ret = EmptyHistory(call.date))

\* ------------------------------------------------------------- startup

\* The year and month the /dates endpoints answer with while their manager
\* is None.
RouterDefaultYear == 2024

RouterDefaultMonth == 1

\* get_available_dates: the dates of the table in order of first appearance.
RECURSIVE UniqueFrom(_, _, _)
UniqueFrom(frame, i, seen) ==
    IF i > Len(frame) THEN <<>>
    ELSE IF frame[i].date \in seen THEN UniqueFrom(frame, i + 1, seen)
    ELSE <<frame[i].date>> \o UniqueFrom(frame, i + 1, seen \cup {frame[i].date})

GetAvailableDates(frame) ==
    IF Len(frame) = 0 THEN <<>> ELSE UniqueFrom(frame, 1, {})

\* Files the startup specification loads.
StartupFiles(mkt) == DayFiles(mkt)

\* The query endpoints of a market's router.
RouterEndpoints(mkt) ==
    {"dates", "data", "frequent", "pullback", "consecutive", "history", "search"}
        \cup (IF mkt = "us" THEN {"gap-analysis"} ELSE {})

\* What an endpoint returns while the router's manager is None.
RouterEmptyResult(mkt, endpoint, end_date) ==
    CASE endpoint = "dates" ->
            [dates |-> <<>>, initial_year |-> RouterDefaultYear,
             initial_month |-> RouterDefaultMonth,
             min_year |-> RouterDefaultYear, max_year |-> RouterDefaultYear]
      [] endpoint = "data" ->
            IF mkt = "kr" THEN [trading_value |-> <<>>, change_rate |-> <<>>]
            ELSE UsEmptyResult
      [] endpoint = "history" -> EmptyHistory(end_date)
      [] OTHER -> <<>>

\* One statement of lifespan: load_data of market m.  lifespan never awaits
\* before its yield and load_data is synchronous, so no request is in the
\* middle of its handler while it runs; the requests of this specification
\* may still arrive between two statements, which is more than the server
\* allows and covers an application driven without its lifespan.
LifespanLoad(m) ==
    /\ LifespanOrder[app.pc] = [do |-> "load", of |-> m]
    /\ call.op \in {"none", "idle"}
    /\ \E outcome \in LoadOutcomes :
          IF m = market
          THEN LoadInto(StartupFiles(m), outcome)
          ELSE UNCHANGED <<df, has_columns, stats>>
    /\ app' = [app EXCEPT !.pc = @ + 1, !.loaded = @ \cup {m}]
    /\ UNCHANGED <<market, call, ret, raised, userVars>>

\* One statement of lifespan: set_data_manager of market m's router.
LifespanPublish(m) ==
    /\ LifespanOrder[app.pc] = [do |-> "publish", of |-> m]
    /\ call.op \in {"none", "idle"}
    /\ app' = [app EXCEPT !.pc = @ + 1, !.published = @ \cup {m}]
    /\ call' = [NoCall EXCEPT !.op = "idle"]
    /\ UNCHANGED <<market, df, has_columns, stats, ret, raised, userVars>>

\* An endpoint of the observed market's router called while its manager is
\* None: the empty result, without a call to the manager.
RouterUnpublished(endpoint, end_date) ==
    /\ call.op \in {"none", "idle"}
    /\ market \notin app.published
    /\ call' = [NoCall EXCEPT !.op = "router_none", !.category = endpoint,
                              !.date = end_date]
    /\ ret' = RouterEmptyResult(market, endpoint, end_date)
    /\ raised' = "none"
    /\ UNCHANGED <<market, df, has_columns, stats, app, userVars>>

\* /dates with a manager.
RouterGetDates ==
    /\ Loaded
    /\ market \in app.published
    /\ call' = [NoCall EXCEPT !.op = "dates"]
    /\ ret' = [dates |-> GetAvailableDates(df),
               initial_year |-> stats.initial_year,
               initial_month |-> stats.initial_month,
               min_year |-> stats.min_year, max_year |-> stats.max_year]
    /\ raised' = "none"
    /\ UNCHANGED <<market, df, has_columns, stats, app, userVars>>

\* /data with a manager.
RouterGetData(d) ==
    /\ market \in app.published
    /\ GetKrDayData(d) \/ GetUsDayData(d)

\* /frequent with a manager.
RouterGetFrequentStocks(base, weeks, category) ==
    /\ market \in app.published
    /\ GetFrequentStocks(base, weeks, category)

NextStartup ==
    \/ Return
    \/ \E m \in {"kr", "us"} : LifespanLoad(m)
    \/ \E m \in {"kr", "us"} : LifespanPublish(m)
    \/ \E endpoint \in RouterEndpoints(market), end_date \in 0..1 :
          RouterUnpublished(endpoint, end_date)
    \/ RouterGetDates
    \/ \E d \in RequestDates : RouterGetData(d)
    \/ \E base \in RequestDates, category \in Categories(market) :
          RouterGetFrequentStocks(base, 1, category)

SpecStartup == Init /\ [][NextStartup]_vars

\* ------------------------------------------------------- startup: C20

\* The operations that read the observed market's table.
ReadsDataset ==
    call.op \in {"dates", "kr_day", "us_day", "frequent", "pullback",
                 "consecutive", "history", "search", "gap"}

\* An answer without content: every list of it is empty, and the years of
\* /dates are the routers' defaults.
AnswerIsEmpty ==
    \/ ret = <<>>
    \/ /\ call.category = "dates"
       /\ ret.dates = <<>>
       /\ ret.initial_year = 2024 /\ ret.initial_month = 1
       /\ ret.min_year = 2024 /\ ret.max_year = 2024
    \/ /\ call.category = "data"
       /\ \A field \in DOMAIN ret : ret[field] = <<>>
       /\ DOMAIN ret = (IF market = "kr"
                        THEN {"trading_value", "change_rate"}
                        ELSE {"high_price_volume", "high_price_rate",
                              "mid_price_volume", "mid_price_rate",
                              "low_price_volume", "low_price_rate"})
    \/ /\ call.category = "history"
       /\ \A field \in DOMAIN ret \ {"end_date"} : ret[field] = <<>>
       /\ ret.end_date = call.date

\* C20: no query of a market's router reads the market's table before
\* load_data for that market has returned (a manager is published only after
\* its load, and only a published manager is read), and while the router's
\* manager is not yet published every endpoint answers with its empty result.
C20_NoReadBeforeLoadEmptyUntilPublished ==
    /\ app.published \subseteq app.loaded
    /\ ReadsDataset => (market \in app.published /\ market \in app.loaded)
    /\ (market \notin app.published /\ call.op \notin {"none", "idle"}) =>
          (call.op = "router_none" /\ raised = "none" /\ AnswerIsEmpty)

\* A request that arrives after the table is loaded with rows and before the
\* router has its manager, answered with the empty result.
C20_Witness ==
    /\ call.op = "router_none"
    /\ call.category = "frequent"
    /\ market \in app.loaded
    /\ market \notin app.published
    /\ Len(df) > 0
    /\ ret = <<>>

\* ------------------------------------------------ all queries on one table

\* The file families above are projections of a data file on the columns one
\* group of queries reads.  All of them together, and for each query the test
\* that the loaded projection carries its columns (an empty table carries
\* them all); the search files spell the codes out as text.
QueryFiles(m) == DayFiles(m) \union HistoryFiles \union GapFiles \union SearchFiles

Carries(frame, columns) ==
    IF Len(frame) = 0 THEN TRUE ELSE columns \subseteq DOMAIN frame[1]

RankerColumns == {"date", "code", "change_pct", "turnover", "close"}

HistoryColumns == {"date", "code", "close", "turnover"}

GapColumns == {"date", "code", "name", "close", "turnover"}

SearchColumns == {"code", "name"}

CodesSpelledOut(frame) ==
    IF Len(frame) = 0 THEN TRUE ELSE "close" \notin DOMAIN frame[1]

NextQueries ==
    \/ Return
    \/ LoadData(QueryFiles(market))
    \/ /\ Carries(df, RankerColumns)
       /\ \E d \in RequestDates : GetKrDayData(d) \/ GetUsDayData(d)
    \/ /\ Carries(df, RankerColumns)
       /\ \E base \in RequestDates, category \in Categories(market) :
             GetFrequentStocks(base, 1, category)
    \/ /\ Carries(df, RankerColumns)
       /\ \E base \in RequestDates, category \in Categories(market) :
             GetPullbackStocks(base, 1, category)
    \/ /\ Carries(df, RankerColumns)
       /\ \E base \in RequestDates, category \in Categories(market) :
             GetConsecutiveRiseStocks(base, 2, category)
    \/ /\ Carries(df, HistoryColumns)
       /\ \E stock_code \in {CodeSeq[1], "Z"}, days \in 1..2, end_date \in {0, 2} :
             GetStockHistory(stock_code, days, end_date)
    \/ /\ Carries(df, GapColumns)
       /\ \E a \in {r \in GapRequests : r.start_date = 1 /\ r.ticker_filter = <<>>} :
             GetGapAnalysis(a)
    \/ /\ Carries(df, SearchColumns) /\ CodesSpelledOut(df)
       /\ \E query \in {<<>>, <<"A", "A">>}, limit \in {1, MaxSearchRows} :
             SearchStocks(query, limit)

SpecQueries == Init /\ [][NextQueries]_vars

\* ------------------------------------------------------ pure reads: C21

QueryOps ==
    {"kr_day", "us_day", "frequent", "pullback", "consecutive", "history",
     "search", "gap"}

\* C21: after the load, every query (day snapshot, frequency, pullback,
\* consecutive rise, history, search, gap screen) leaves the resident table
\* and the scalars derived from it (min_year, max_year, initial_year,
\* initial_month) as they were, so a query's answer does not depend on the
\* queries served before it.
C21_QueriesLeaveDatasetUnchanged ==
    [][(call.op = "idle" /\ call'.op \in QueryOps) =>
          (df' = df /\ stats' = stats /\ has_columns' = has_columns
           /\ market' = market)]_vars

\* The gap screen has answered with rows: it sorted the table by instrument
\* and date and added its shifted columns to the working frame.
C21_Witness ==
    /\ call.op = "gap"
    /\ raised = "none"
    /\ Len(df) > 1
    /\ Len(ret) > 0

\* ------------------------------------------------ the visitor documents

\* Folders in a document, favorites in a folder, and the last millisecond of
\* the wall clock.
MaxFolders == 3

MaxFavorites == 2

MaxClock == 2

\* The name of the default folder (a Korean text in the source).
DefaultFolderName == "default folder"

\* _get_default_data
GetDefaultData ==
    [folders |-> <<[id |-> "default", name |-> DefaultFolderName]>>,
     favorites |-> Put(EmptyMap, "default", <<>>),
     memos |-> EmptyMap]

\* Text is a sequence of one-character strings.
\* client_ip.replace(':', '_').replace('.', '_')
SafeIp(client_ip) ==
    [i \in 1..Len(client_ip) |->
        IF client_ip[i] \in {":", "."} THEN "_" ELSE client_ip[i]]

\* _get_file_path: data_dir / f'user_data_{safe_ip}.json'
GetFilePath(client_ip) == <<"user_data_">> \o SafeIp(client_ip) \o <<".json">>

\* f'folder_{int(datetime.now().timestamp() * 1000)}'
FolderIdAt(now) == IF now = 1 THEN "folder_1" ELSE "folder_2"

\* fav.get('market', 'kr')
FavMarket(fav) == IF "market" \in DOMAIN fav THEN fav.market ELSE "kr"

\* f"{market}_{code}": the memo key and the key of reorder_favorites.
MarketCodeKey(mkt, code) == <<mkt, "_", code>>

FavKey(fav) == MarketCodeKey(FavMarket(fav), fav.code)

FavKeysOf(favorites) == [i \in 1..Len(favorites) |-> FavKey(favorites[i])]

\* fav['code'] == stock_code and fav.get('market', 'kr') == market
SameStock(fav, stock_code, mkt) == fav.code = stock_code /\ FavMarket(fav) = mkt

\* strftime('%Y-%m-%d') and strftime('%Y-%m-%d %H:%M:%S') of datetime.now()
Today == "today"

NowText == "now"

\* A file of the data directory: bytes that json.load rejects, a JSON text
\* whose top level is a list, or a JSON object.  json.dump writes the cached
\* document, which holds only objects with string keys, lists and strings, and
\* json.load reads such a text back to an equal value.
GarbageFile == [kind |-> "garbage"]

ListFile == [kind |-> "list"]

JsonDump(data) == [kind |-> "object", value |-> data]

\* What load builds on a cache miss.  open or json.load raising, and
\* data.get on a list, end in the except clause and the default document; an
\* object without 'folders' is migrated: the default document with the old
\* favorites when they are a list (a JSON value under 'favorites' of an old
\* document is [type, items]); any other object is taken as it is.
ReadDocument(dk, client_ip) ==
    LET file_path == GetFilePath(client_ip)
    IN IF file_path \notin DOMAIN dk THEN GetDefaultData
       ELSE IF dk[file_path].kind # "object" THEN GetDefaultData
       ELSE LET data == dk[file_path].value
            IN IF "folders" \in DOMAIN data THEN data
               ELSE LET old_favorites ==
                            IF "favorites" \in DOMAIN data
                            THEN data.favorites
                            ELSE [type |-> "list", items |-> <<>>]
                    IN [GetDefaultData EXCEPT
                          !.favorites = Put(@, "default",
                              IF old_favorites.type = "list"
                              THEN old_favorites.items ELSE <<>>)]

\* The outcome of a method on the document object: the document after it,
\* what it returned, whether it came to self.save, and what it raised.
Outcome(data, value, saved, exception) ==
    [doc |-> data, ret |-> value, save |-> saved, raised |-> exception]

KeyErrorOn(data) == Outcome(data, <<>>, FALSE, "KeyError")

\* create_folder
CreateFolder(data, folder_name, now) ==
    LET new_folder == [id |-> FolderIdAt(now), name |-> folder_name]
        appended == [data EXCEPT !.folders = Append(@, new_folder)]
    IN IF "favorites" \notin DOMAIN data THEN KeyErrorOn(appended)
       ELSE Outcome([appended EXCEPT !.favorites = Put(@, new_folder.id, <<>>)],
                    new_folder, TRUE, "none")

\* delete_folder after its test for 'default'
DeleteFolder(data, folder_id) ==
    LET filtered == [data EXCEPT
                        !.folders = SelectSeq(@, LAMBDA f : f.id # folder_id)]
    IN IF "favorites" \notin DOMAIN data THEN KeyErrorOn(filtered)
       ELSE Outcome([filtered EXCEPT !.favorites = Del(@, folder_id)],
                    TRUE, TRUE, "none")

\* rename_folder: the first folder with the id gets the name.  After a
\* reorder that listed an id twice the list holds one folder object twice
\* until the document is read back from its file, so each later entry equal
\* to the first may be the same object and change with it.
RenameFolder(data, folder_id, new_name) ==
    LET folders == data.folders
        hits == {i \in 1..Len(folders) : folders[i].id = folder_id}
    IN IF hits = {} THEN {Outcome(data, FALSE, FALSE, "none")}
       ELSE LET first == CHOOSE i \in hits : \A j \in hits : i <= j
                twins == {j \in hits : j > first /\ folders[j] = folders[first]}
            IN {Outcome([data EXCEPT !.folders =
                            [i \in 1..Len(folders) |->
                                IF i = first \/ i \in same
                                THEN [folders[i] EXCEPT !.name = new_name]
                                ELSE folders[i]]],
                        TRUE, TRUE, "none") : same \in SUBSET twins}

\* {key: item for item in items}[k]: of the items with the key k, the last.
\* item_keys[i] is the key of items[i].
LastWithKey(items, item_keys, k) ==
    items[CHOOSE i \in 1..Len(items) :
             /\ item_keys[i] = k
             /\ \A j \in 1..Len(items) : item_keys[j] = k => j <= i]

\* The two loops of reorder_folders and reorder_favorites: the items of the
\* listed keys that exist, in the order listed and once per listing, then the
\* items whose key is not listed, in their order.
Reordered(items, item_keys, keys) ==
    LET known == SelectSeq(keys, LAMBDA k : \E i \in 1..Len(items) : item_keys[i] = k)
        unlisted == SelectSeq([i \in 1..Len(items) |-> i],
                       LAMBDA i : \A j \in 1..Len(keys) : keys[j] # item_keys[i])
    IN [i \in 1..Len(known) |-> LastWithKey(items, item_keys, known[i])]
       \o [i \in 1..Len(unlisted) |-> items[unlisted[i]]]

FolderIdOf(folder) == folder.id

\* f['id'] for f in data['folders']
FolderIdsOf(folders) == [i \in 1..Len(folders) |-> FolderIdOf(folders[i])]

\* reorder_folders
ReorderFolders(data, folder_ids) ==
    Outcome([data EXCEPT !.folders = Reordered(@, FolderIdsOf(@), folder_ids)],
            TRUE, TRUE, "none")

\* get_folders
GetFolders(data) ==
    IF Len(data.folders) > 0 /\ "favorites" \notin DOMAIN data THEN KeyErrorOn(data)
    ELSE Outcome(data,
                 [i \in 1..Len(data.folders) |->
                     [id |-> data.folders[i].id, name |-> data.folders[i].name,
                      count |-> IF data.folders[i].id \in DOMAIN data.favorites
                                THEN Len(data.favorites[data.folders[i].id])
                                ELSE 0]],
                 FALSE, "none")

\* AddFavorite without the test for an entry of the same stock.
AddFavoriteUnchecked(data, folder_id, stock_code, stock_name, mkt) ==
    IF "favorites" \notin DOMAIN data THEN KeyErrorOn(data)
    ELSE LET started == IF folder_id \in DOMAIN data.favorites THEN data
                        ELSE [data EXCEPT !.favorites = Put(@, folder_id, <<>>)]
         IN Outcome([started EXCEPT !.favorites[folder_id] =
                        Append(@, [code |-> stock_code, name |-> stock_name,
                                   market |-> mkt, added_date |-> Today])],
                    TRUE, TRUE, "none")

\* add_favorite
AddFavorite(data, folder_id, stock_code, stock_name, mkt) ==
    IF "favorites" \notin DOMAIN data THEN KeyErrorOn(data)
    ELSE LET started == IF folder_id \in DOMAIN data.favorites THEN data
                        ELSE [data EXCEPT !.favorites = Put(@, folder_id, <<>>)]
             held == started.favorites[folder_id]
         IN IF \E i \in 1..Len(held) : SameStock(held[i], stock_code, mkt)
            THEN Outcome(started, FALSE, FALSE, "none")
            ELSE Outcome([started EXCEPT !.favorites[folder_id] =
                             Append(@, [code |-> stock_code, name |-> stock_name,
                                        market |-> mkt, added_date |-> Today])],
                         TRUE, TRUE, "none")

\* remove_favorite
RemoveFavorite(data, folder_id, stock_code, mkt) ==
    IF "favorites" \notin DOMAIN data THEN KeyErrorOn(data)
    ELSE IF folder_id \notin DOMAIN data.favorites
    THEN Outcome(data, FALSE, FALSE, "none")
    ELSE LET kept == SelectSeq(data.favorites[folder_id],
                               LAMBDA f : ~SameStock(f, stock_code, mkt))
             after == [data EXCEPT !.favorites[folder_id] = kept]
         IN IF Len(kept) < Len(data.favorites[folder_id])
            THEN Outcome(after, TRUE, TRUE, "none")
            ELSE Outcome(after, FALSE, FALSE, "none")

\* move_favorite
MoveFavorite(data, stock_code, from_folder, to_folder, mkt) ==
    IF "favorites" \notin DOMAIN data THEN KeyErrorOn(data)
    ELSE IF from_folder \notin DOMAIN data.favorites
            \/ to_folder \notin DOMAIN data.favorites
    THEN Outcome(data, FALSE, FALSE, "none")
    ELSE LET held == data.favorites[from_folder]
             hits == {i \in 1..Len(held) : SameStock(held[i], stock_code, mkt)}
         IN IF hits = {} THEN Outcome(data, FALSE, FALSE, "none")
            ELSE LET stock_item == held[CHOOSE i \in hits : \A j \in hits : i <= j]
                     taken == [data EXCEPT !.favorites[from_folder] =
                                  SelectSeq(@, LAMBDA f : ~SameStock(f, stock_code, mkt))]
                 IN Outcome([taken EXCEPT !.favorites[to_folder] =
                                Append(@, stock_item)],
                            TRUE, TRUE, "none")

\* reorder_favorites
ReorderFavorites(data, folder_id, favorite_keys) ==
    IF "favorites" \notin DOMAIN data THEN KeyErrorOn(data)
    ELSE IF folder_id \notin DOMAIN data.favorites
    THEN Outcome(data, FALSE, FALSE, "none")
    ELSE Outcome([data EXCEPT !.favorites[folder_id] =
                     Reordered(@, FavKeysOf(@), favorite_keys)],
                 TRUE, TRUE, "none")

\* get_favorites
GetFavorites(data, folder_id) ==
    IF "favorites" \notin DOMAIN data THEN KeyErrorOn(data)
    ELSE Outcome(data,
                 IF folder_id \in DOMAIN data.favorites
                 THEN data.favorites[folder_id] ELSE <<>>,
                 FALSE, "none")

\* set_memo
SetMemo(data, stock_code, memo, mkt) ==
    IF "memos" \notin DOMAIN data THEN KeyErrorOn(data)
    ELSE Outcome([data EXCEPT !.memos =
                     Put(@, MarketCodeKey(mkt, stock_code),
                         [content |-> memo, updated_date |-> NowText])],
                 TRUE, TRUE, "none")

\* get_memo
GetMemo(data, stock_code, mkt) ==
    IF "memos" \notin DOMAIN data THEN KeyErrorOn(data)
    ELSE Outcome(data,
                 IF MarketCodeKey(mkt, stock_code) \in DOMAIN data.memos
                 THEN data.memos[MarketCodeKey(mkt, stock_code)].content
                 ELSE "",
                 FALSE, "none")

\* delete_memo
DeleteMemo(data, stock_code, mkt) ==
    IF "memos" \notin DOMAIN data THEN KeyErrorOn(data)
    ELSE IF MarketCodeKey(mkt, stock_code) \in DOMAIN data.memos
    THEN Outcome([data EXCEPT !.memos = Del(@, MarketCodeKey(mkt, stock_code))],
                 TRUE, TRUE, "none")
    ELSE Outcome(data, FALSE, FALSE, "none")

\* The methods by the name of the request; only rename_folder has more than
\* one outcome.
Apply(data, req, now) ==
    CASE req.op = "create_folder" -> {CreateFolder(data, req.name, now)}
      [] req.op = "delete_folder" -> {DeleteFolder(data, req.folder_id)}
      [] req.op = "rename_folder" -> RenameFolder(data, req.folder_id, req.name)
      [] req.op = "reorder_folders" -> {ReorderFolders(data, req.keys)}
      [] req.op = "get_folders" -> {GetFolders(data)}
      [] req.op = "add_favorite" ->
            {AddFavorite(data, req.folder_id, req.code, req.name, req.market)}
      [] req.op = "remove_favorite" ->
            {RemoveFavorite(data, req.folder_id, req.code, req.market)}
      [] req.op = "move_favorite" ->
            {MoveFavorite(data, req.code, req.folder_id, req.to_folder, req.market)}
      [] req.op = "reorder_favorites" ->
            {ReorderFavorites(data, req.folder_id, req.keys)}
      [] req.op = "get_favorites" -> {GetFavorites(data, req.folder_id)}
      [] req.op = "set_memo" -> {SetMemo(data, req.code, req.name, req.market)}
      [] req.op = "get_memo" -> {GetMemo(data, req.code, req.market)}
      [] req.op = "delete_memo" -> {DeleteMemo(data, req.code, req.market)}

\* DeleteRefused that lets the default folder go.
DeleteRefusedNever(req) == FALSE

\* if folder_id == 'default': return False, before the document is loaded.
DeleteRefused(req) == req.op = "delete_folder" /\ req.folder_id = "default"

\* What the endpoint answers with.
RouterAnswer(req, o) ==
    IF o.raised # "none" THEN <<>>
    ELSE IF req.op = "create_folder" THEN [success |-> TRUE, folder |-> o.ret]
    ELSE IF req.op \in {"get_folders", "get_favorites"} THEN o.ret
    ELSE IF req.op = "get_memo" THEN [memo |-> o.ret]
    ELSE [success |-> o.ret]

\* A new object's identity.
NewObject(h) == CHOOSE n \in 1..(Cardinality(DOMAIN h) + 1) : n \notin DOMAIN h

\* load: the cached object, or on a miss a new object that is cached.
Load(c, h, dk, client_ip) ==
    IF client_ip \in DOMAIN c
    THEN [cache |-> c, heap |-> h, data |-> c[client_ip]]
    ELSE LET object == NewObject(h)
         IN [cache |-> Put(c, client_ip, object),
             heap |-> Put(h, object, ReadDocument(dk, client_ip)),
             data |-> object]

\* save: nothing without a cached document, else the cached document is
\* written to the visitor's file.
Save(dk, c, h, client_ip) ==
    IF client_ip \notin DOMAIN c THEN dk
    ELSE Put(dk, GetFilePath(client_ip), JsonDump(h[c[client_ip]]))

\* The documents the bounds admit.
WithinBounds(data) ==
    /\ Len(data.folders) <= MaxFolders
    /\ "favorites" \in DOMAIN data =>
          \A f \in DOMAIN data.favorites : Len(data.favorites[f]) <= MaxFavorites

UserCall(client_ip, req) ==
    [op |-> req.op, date |-> 0, n |-> 0, category |-> "-",
     client_ip |-> client_ip, req |-> req]

\* One user endpoint from its call to its return: the handlers are coroutines
\* without an await, so the event loop runs one at a time.
Handle(client_ip, req) ==
    /\ call.op \in {"none", "idle"}
    /\ tasks = <<>>
    /\ call' = UserCall(client_ip, req)
    /\ IF DeleteRefused(req)
       THEN /\ ret' = [success |-> FALSE]
            /\ raised' = "none"
            /\ UNCHANGED <<heap, cache, disk, clock>>
       ELSE LET l == Load(cache, heap, disk, client_ip)
            IN \E now \in (IF req.op = "create_folder" THEN clock..MaxClock
                           ELSE {clock}) :
                 \E o \in Apply(l.heap[l.data], req, now) :
                    /\ WithinBounds(o.doc)
                    /\ heap' = [l.heap EXCEPT ![l.data] = o.doc]
                    /\ cache' = l.cache
                    /\ disk' = IF o.save THEN Save(disk, cache', heap', client_ip)
                               ELSE disk
                    /\ clock' = now
                    /\ ret' = RouterAnswer(req, o)
                    /\ raised' = o.raised
    /\ UNCHANGED <<market, df, has_columns, stats, app, tasks>>

\* The process is restarted: its memory is gone, the files stay.
Restart ==
    /\ call.op = "idle"
    /\ cache # EmptyMap
    /\ heap' = EmptyMap
    /\ cache' = EmptyMap
    /\ tasks' = <<>>
    /\ call' = NoCall
    /\ UNCHANGED <<market, df, has_columns, stats, app, ret, raised, disk, clock>>

\* A file that an earlier run or an earlier version left in the data
\* directory.
PlantFile(client_ip, file) ==
    /\ call.op = "none"
    /\ cache = EmptyMap
    /\ GetFilePath(client_ip) \notin DOMAIN disk
    /\ disk' = Put(disk, GetFilePath(client_ip), file)
    /\ UNCHANGED <<market, df, has_columns, stats, app, call, ret, raised,
                   heap, cache, clock, tasks>>

\* The requests of one visitor.
FolderArgs == {"default", "folder_1", "ghost"}

FolderLists ==
    {<<>>, <<"folder_1", "default">>, <<"default", "default">>,
     <<"ghost", "folder_1">>}

FavoriteLists ==
    {<<>>, <<MarketCodeKey("us", "A"), MarketCodeKey("kr", "A")>>,
     <<MarketCodeKey("kr", "A"), MarketCodeKey("kr", "A")>>,
     <<MarketCodeKey("kr", "Z")>>}

Markets == {"kr", "us"}

FolderRequests ==
    {[op |-> "create_folder", name |-> "x"]}
    \union {[op |-> "delete_folder", folder_id |-> f] : f \in FolderArgs}
    \union {[op |-> "rename_folder", folder_id |-> f, name |-> "y"] :
               f \in {"default", "ghost"}}
    \union {[op |-> "reorder_folders", keys |-> ids] : ids \in FolderLists}

FavoriteTargets == {<<"default", "kr">>, <<"default", "us">>,
                    <<"folder_1", "kr">>, <<"ghost", "kr">>}

FavoriteMoves == {<<"default", "folder_1">>, <<"folder_1", "default">>,
                  <<"default", "default">>, <<"ghost", "default">>}

FavoriteRequests ==
    {[op |-> "add_favorite", folder_id |-> t[1], code |-> "A", name |-> "n",
      market |-> t[2]] : t \in FavoriteTargets}
    \union {[op |-> "remove_favorite", folder_id |-> t[1], code |-> "A",
             market |-> t[2]] : t \in FavoriteTargets}
    \union {[op |-> "move_favorite", code |-> "A", folder_id |-> mv[1],
             to_folder |-> mv[2], market |-> "kr"] : mv \in FavoriteMoves}
    \union {[op |-> "reorder_favorites", folder_id |-> "default", keys |-> ks] :
               ks \in FavoriteLists}
    \union {[op |-> "reorder_favorites", folder_id |-> "folder_2", keys |-> <<>>]}

MemoRequests ==
    {[op |-> "set_memo", code |-> "A", name |-> "m", market |-> "kr"],
     [op |-> "delete_memo", code |-> "A", market |-> "kr"]}

\* The requests that only read.
ReadRequests ==
    {[op |-> "get_folders"], [op |-> "get_favorites", folder_id |-> "default"],
     [op |-> "get_memo", code |-> "A", market |-> "kr"]}

UserRequests == FolderRequests \union FavoriteRequests \union MemoRequests

\* Visitor keys: two addresses that differ in their separators only, and a
\* third.
VisitorKeys == {<<"1", ".", "2">>, <<"1", ":", "2">>, <<"9">>}

FirstVisitor == <<"1", ".", "2">>

\* One visitor, no file at the start.
NextUser ==
    \/ Return
    \/ \E req \in UserRequests : Handle(FirstVisitor, req)

SpecUser == Init /\ [][NextUser]_vars

\* ------------------------------------------- visitor documents: C22, C23

\* The document a visitor's next request works on: the cached object, or
\* what load would build from the visitor's file.
Observed(client_ip) ==
    IF client_ip \in DOMAIN cache THEN heap[cache[client_ip]]
    ELSE ReadDocument(disk, client_ip)

UserStep(op) == call.op \in {"none", "idle"} /\ call'.op = op

HasDefaultFolder(data) ==
    /\ \E i \in 1..Len(data.folders) : data.folders[i].id = "default"
    /\ "default" \in DOMAIN data.favorites

\* C22: delete_folder(visitor, "default") returns False and leaves the
\* visitor's document as it was, in the cache and in the file; and after any
\* sequence of folder, favorite and memo operations from a fresh document,
\* folders holds a folder with the id "default" and favorites has the key
\* "default".
C22_DefaultFolderIsNeverDeleted ==
    /\ [](\A v \in DOMAIN cache : HasDefaultFolder(heap[cache[v]]))
    /\ [](\A f \in DOMAIN disk : HasDefaultFolder(disk[f].value))
    /\ [][(UserStep("delete_folder") /\ call'.req.folder_id = "default") =>
             /\ ret' = [success |-> FALSE]
             /\ raised' = "none"
             /\ heap' = heap /\ cache' = cache /\ disk' = disk]_vars

\* delete_folder("default") has answered False on a document with a second
\* folder and a favorite in the default folder.
C22_Witness ==
    /\ call.op = "delete_folder"
    /\ call.req.folder_id = "default"
    /\ ret = [success |-> FALSE]
    /\ Len(Observed(FirstVisitor).folders) > 1
    /\ Len(Observed(FirstVisitor).favorites["default"]) > 0

\* The favorites a folder holds, none for a folder without a list.
HeldIn(data, folder_id) ==
    IF folder_id \in DOMAIN data.favorites THEN data.favorites[folder_id]
    ELSE <<>>

\* C23: add_favorite on a folder that already holds a favorite with the code
\* and the market returns False and leaves the document unchanged, in the
\* cache and in the file; otherwise it returns True, the folder's list grows
\* by that one entry at its end, and the file holds the new document.
C23_AddFavoriteIsIdempotent ==
    [][UserStep("add_favorite") =>
         LET v == call'.client_ip
             req == call'.req
             before == Observed(v)
             after == heap'[cache'[v]]
             held == HeldIn(before, req.folder_id)
         IN IF \E i \in 1..Len(held) : SameStock(held[i], req.code, req.market)
            THEN /\ ret' = [success |-> FALSE]
                 /\ after = before
                 /\ disk' = disk
            ELSE /\ ret' = [success |-> TRUE]
                 /\ Len(after.favorites[req.folder_id]) = Len(held) + 1
                 /\ SubSeq(after.favorites[req.folder_id], 1, Len(held)) = held
                 /\ SameStock(after.favorites[req.folder_id][Len(held) + 1],
                              req.code, req.market)
                 /\ \A f \in DOMAIN before.favorites \ {req.folder_id} :
                       after.favorites[f] = before.favorites[f]
                 /\ after.folders = before.folders
                 /\ after.memos = before.memos
                 /\ disk'[GetFilePath(v)] = JsonDump(after)]_vars

\* The second add of a stock to a folder that holds two has answered False.
C23_Witness ==
    /\ call.op = "add_favorite"
    /\ ret = [success |-> FALSE]
    /\ Len(Observed(FirstVisitor).favorites[call.req.folder_id]) = 2

\* --------------------------------------------- requests of one visitor

\* Requests in one run.
MaxTasks == 3

\* Runnable with handlers switched at any statement, as threads would be.
RunnablePreemptive(t) == TRUE

\* The event loop runs the handler of task t: the user endpoints are
\* coroutines without an await and the manager's file access is synchronous,
\* so a handler that has started runs to its return before another starts.
Runnable(t) ==
    \A other \in (1..Len(tasks)) \ {t} : tasks[other].pc \in {"pending", "done"}

\* A request has arrived and waits for the event loop.
Submit(client_ip, req) ==
    /\ Len(tasks) < MaxTasks
    /\ tasks' = Append(tasks, [client_ip |-> client_ip, req |-> req,
                               pc |-> "pending", data |-> 0])
    /\ UNCHANGED <<market, df, has_columns, stats, app, call, ret, raised,
                   heap, cache, disk, clock>>

\* The handler up to the end of load's lookup: delete_folder('default')
\* returns at once; a cached visitor gets the cached object; for any other
\* the file is read into a new object.
TaskLookup(t) ==
    /\ tasks[t].pc = "pending"
    /\ Runnable(t)
    /\ IF DeleteRefused(tasks[t].req)
       THEN /\ tasks' = [tasks EXCEPT ![t].pc = "done"]
            /\ UNCHANGED heap
       ELSE IF tasks[t].client_ip \in DOMAIN cache
       THEN /\ tasks' = [tasks EXCEPT ![t].pc = "loaded",
                                      ![t].data = cache[tasks[t].client_ip]]
            /\ UNCHANGED heap
       ELSE LET object == NewObject(heap)
            IN /\ heap' = Put(heap, object, ReadDocument(disk, tasks[t].client_ip))
               /\ tasks' = [tasks EXCEPT ![t].pc = "read", ![t].data = object]
    /\ UNCHANGED <<market, df, has_columns, stats, app, call, ret, raised,
                   cache, disk, clock>>

\* self.cache[client_ip] = data, the end of load after a miss.
TaskCache(t) ==
    /\ tasks[t].pc = "read"
    /\ Runnable(t)
    /\ cache' = Put(cache, tasks[t].client_ip, tasks[t].data)
    /\ tasks' = [tasks EXCEPT ![t].pc = "loaded"]
    /\ UNCHANGED <<market, df, has_columns, stats, app, call, ret, raised,
                   heap, disk, clock>>

\* The method's work on the object load returned, and self.save.
TaskFinish(t) ==
    /\ tasks[t].pc = "loaded"
    /\ Runnable(t)
    /\ \E o \in Apply(heap[tasks[t].data], tasks[t].req, clock) :
          /\ WithinBounds(o.doc)
          /\ heap' = [heap EXCEPT ![tasks[t].data] = o.doc]
          /\ disk' = IF o.save THEN Save(disk, cache, heap', tasks[t].client_ip)
                     ELSE disk
    /\ tasks' = [tasks EXCEPT ![t].pc = "done"]
    /\ UNCHANGED <<market, df, has_columns, stats, app, call, ret, raised,
                   cache, clock>>

ConcurrentRequests ==
    {[op |-> "add_favorite", folder_id |-> "default", code |-> "A",
      name |-> "n", market |-> "kr"],
     [op |-> "add_favorite", folder_id |-> "default", code |-> "A",
      name |-> "n", market |-> "us"],
     [op |-> "add_favorite", folder_id |-> "ghost", code |-> "A",
      name |-> "n", market |-> "kr"],
     [op |-> "remove_favorite", folder_id |-> "default", code |-> "A",
      market |-> "kr"],
     [op |-> "reorder_favorites", folder_id |-> "default",
      keys |-> <<MarketCodeKey("us", "A"), MarketCodeKey("kr", "A")>>],
     [op |-> "delete_folder", folder_id |-> "ghost"],
     [op |-> "set_memo", code |-> "A", name |-> "m", market |-> "kr"]}

NextConcurrent ==
    \/ \E req \in ConcurrentRequests : Submit(FirstVisitor, req)
    \/ \E t \in 1..Len(tasks) : TaskLookup(t)
    \/ \E t \in 1..Len(tasks) : TaskCache(t)
    \/ \E t \in 1..Len(tasks) : TaskFinish(t)

SpecConcurrent == Init /\ [][NextConcurrent]_vars

\* ------------------------------------------------- no lost update: C24

\* The document and the file after the requests reqs have run one after the
\* other on a visitor without a file.
RECURSIVE RunInOrder(_, _, _)
RunInOrder(data, file, reqs) ==
    IF Len(reqs) = 0 THEN [doc |-> data, file |-> file]
    ELSE LET o == CHOOSE x \in Apply(data, Head(reqs), 1) : TRUE
         IN RunInOrder(o.doc, IF o.save THEN JsonDump(o.doc) ELSE file,
                       Tail(reqs))

Orders(n) == {p \in [1..n -> 1..n] : \A i, j \in 1..n : i # j => p[i] # p[j]}

Quiescent == Len(tasks) > 0 /\ \A t \in 1..Len(tasks) : tasks[t].pc = "done"

\* What running the requests that arrived one after the other, in the order
\* p, leaves of a visitor without a file.
RunOfTasks(p) ==
    RunInOrder(GetDefaultData, [kind |-> "missing"],
               [i \in 1..Len(tasks) |-> tasks[p[i]].req])

\* C24: the requests of one address do not lose an update.  Whenever all the
\* requests that arrived have returned, the cached document and the file are
\* what running the requests one after the other in some order leaves.
C24_NoLostUpdate ==
    Quiescent =>
       \E p \in Orders(Len(tasks)) :
          /\ FirstVisitor \in DOMAIN cache
          /\ heap[cache[FirstVisitor]] = RunOfTasks(p).doc
          /\ IF RunOfTasks(p).file.kind = "missing"
             THEN GetFilePath(FirstVisitor) \notin DOMAIN disk
             ELSE /\ GetFilePath(FirstVisitor) \in DOMAIN disk
                  /\ disk[GetFilePath(FirstVisitor)] = RunOfTasks(p).file

\* Three requests that each changed the document have returned.
C24_Witness ==
    /\ Len(tasks) = MaxTasks
    /\ Quiescent
    /\ \A t \in 1..Len(tasks) : tasks[t].req.op \in {"add_favorite", "set_memo"}
    /\ Len(heap[cache[FirstVisitor]].favorites["default"]) = 2
    /\ DOMAIN heap[cache[FirstVisitor]].memos # {}

\* ------------------------------------------------- several visitors: C25

VisitorRequests ==
    {[op |-> "get_folders"],
     [op |-> "add_favorite", folder_id |-> "default", code |-> "A",
      name |-> "n", market |-> "kr"],
     [op |-> "set_memo", code |-> "A", name |-> "m", market |-> "kr"]}

\* Several visitors and restarts of the process, no file at the start.
NextVisitors ==
    \/ Return
    \/ Restart
    \/ \E client_ip \in VisitorKeys, req \in VisitorRequests :
          Handle(client_ip, req)

SpecVisitors == Init /\ [][NextVisitors]_vars

\* Observed in the state a step leads to.
ObservedNext(client_ip) ==
    IF client_ip \in DOMAIN cache' THEN heap'[cache'[client_ip]]
    ELSE ReadDocument(disk', client_ip)

\* A request of the visitor a leaves what the visitor b observes, and what
\* b's document is loaded from after a restart, as they were.
Untouched(b) ==
    /\ ObservedNext(b) = Observed(b)
    /\ ReadDocument(disk', b) = ReadDocument(disk, b)

\* C25: for any two distinct visitor keys A and B, no operation performed for
\* A changes the document that B observes, neither in the cache nor in the
\* file B's document is loaded from.
C25_AsClaimed ==
    [][\A a \in VisitorKeys :
          (call.op \in {"none", "idle"} /\ call'.op \in {"get_folders",
               "add_favorite", "set_memo"} /\ call'.client_ip = a)
          => \A b \in VisitorKeys \ {a} : Untouched(b)]_vars

\* What holds of C25: a request of A leaves alone every visitor whose file
\* name differs from A's.
C25_VisitorsWithOwnFiles ==
    [][\A a \in VisitorKeys :
          (call.op \in {"none", "idle"} /\ call'.op \in {"get_folders",
               "add_favorite", "set_memo"} /\ call'.client_ip = a)
          => \A b \in VisitorKeys \ {a} :
                GetFilePath(b) # GetFilePath(a) => Untouched(b)]_vars

\* --------------------------------------------- files of any content: C26

\* An entry of a favorite list written before the market was recorded.
LegacyFavorite == [code |-> "A", name |-> "n", added_date |-> Today]

\* Files of an older version: no 'folders'; the favorites a flat list, not a
\* list, or absent.
LegacyFiles ==
    {JsonDump([favorites |-> [type |-> "list", items |-> <<LegacyFavorite>>]]),
     JsonDump([favorites |-> [type |-> "object", items |-> <<>>]]),
     JsonDump([memos |-> EmptyMap])}

\* JSON objects with 'folders' that lack another part.
PartialFiles ==
    {JsonDump([folders |-> GetDefaultData.folders, memos |-> EmptyMap]),
     JsonDump([folders |-> GetDefaultData.folders,
               favorites |-> GetDefaultData.favorites])}

UnreadableFiles == {GarbageFile, ListFile}

PlantedFiles ==
    UnreadableFiles \union LegacyFiles \union PartialFiles
       \union {JsonDump(GetDefaultData)}

CorruptRequests ==
    ReadRequests \union
    {[op |-> "add_favorite", folder_id |-> "default", code |-> "A",
      name |-> "n", market |-> "kr"],
     [op |-> "add_favorite", folder_id |-> "default", code |-> "Z",
      name |-> "n", market |-> "us"],
     [op |-> "remove_favorite", folder_id |-> "default", code |-> "A",
      market |-> "kr"],
     [op |-> "reorder_favorites", folder_id |-> "default",
      keys |-> <<MarketCodeKey("kr", "A")>>],
     [op |-> "create_folder", name |-> "x"],
     [op |-> "set_memo", code |-> "A", name |-> "m", market |-> "kr"],
     [op |-> "delete_memo", code |-> "A", market |-> "kr"]}

\* One visitor whose file has any content when the process starts.
NextCorrupt ==
    \/ Return
    \/ \E file \in PlantedFiles : PlantFile(FirstVisitor, file)
    \/ \E req \in CorruptRequests : Handle(FirstVisitor, req)

SpecCorrupt == Init /\ [][NextCorrupt]_vars

FileOf(client_ip) ==
    IF GetFilePath(client_ip) \in DOMAIN disk THEN disk[GetFilePath(client_ip)]
    ELSE [kind |-> "missing"]

\* A JSON object with 'folders' that lacks 'favorites' or 'memos'.
IsPartial(file) ==
    IF file.kind # "object" THEN FALSE
    ELSE IF "folders" \notin DOMAIN file.value THEN FALSE
    ELSE "favorites" \notin DOMAIN file.value \/ "memos" \notin DOMAIN file.value

\* The first request of the visitor, one that only reads.
FirstRead ==
    /\ call.op = "none"
    /\ call'.op \in {"get_folders", "get_favorites", "get_memo"}

\* load of an unreadable file yields the fresh default document.
UnreadableYieldsDefault ==
    (FirstRead /\ FileOf(FirstVisitor) \in UnreadableFiles)
       => heap'[cache'[FirstVisitor]] = GetDefaultData

\* load of a legacy document yields the default folder holding the flat
\* favorite list.
LegacyIsMigrated ==
    (FirstRead /\ FileOf(FirstVisitor) \in LegacyFiles)
       => /\ heap'[cache'[FirstVisitor]].folders = GetDefaultData.folders
          /\ heap'[cache'[FirstVisitor]].memos = EmptyMap
          /\ DOMAIN heap'[cache'[FirstVisitor]].favorites = {"default"}
          /\ heap'[cache'[FirstVisitor]].favorites["default"] =
                (IF FileOf(FirstVisitor) =
                       JsonDump([favorites |-> [type |-> "list",
                                                items |-> <<LegacyFavorite>>]])
                 THEN <<LegacyFavorite>> ELSE <<>>)

\* C26: whatever the content of the visitor's file (unreadable, not JSON, or
\* JSON without the folders, favorites or memos part), no visitor operation
\* raises; an unreadable file yields the fresh default document and a legacy
\* document without folders is migrated to the default folder holding its
\* flat favorite list.
C26_AsClaimed ==
    /\ [](call.op \notin {"none", "idle"} => raised = "none")
    /\ [][UnreadableYieldsDefault /\ LegacyIsMigrated]_vars

\* What holds of C26: the same, except that a request may raise when the
\* file is a JSON object with 'folders' but without 'favorites' or 'memos'.
C26_ExceptPartialDocuments ==
    /\ [](call.op \notin {"none", "idle"} =>
             (raised = "none" \/ IsPartial(FileOf(FirstVisitor))))
    /\ [][UnreadableYieldsDefault /\ LegacyIsMigrated]_vars

\* ------------------------------------------- one ranker for all: C27

\* The rows of a day that a category ranks, and the column it ranks them by.
RankedSlice(frame, mkt, d, category) ==
    LET day_data == DayData(frame, d)
        sliced == IF mkt = "us" THEN GetUsPriceFilteredData(day_data, category)
                  ELSE day_data
    IN IF IsVolumeCategory(category) THEN RateFiltered(sliced) ELSE sliced

RankColumn(category) ==
    IF IsVolumeCategory(category) THEN "turnover" ELSE "change_pct"

\* Two rows of the slice tie on the metric at the cut-off.
TieAtCutoff(rows, col) ==
    IF Len(rows) <= TopLimit THEN FALSE
    ELSE Key(StableSortDesc(rows, col)[TopLimit], col)
            = Key(StableSortDesc(rows, col)[TopLimit + 1], col)

CodesOf(rows) == {rows[i].code : i \in 1..Len(rows)}

\* The instruments the loop of get_frequent_stocks counts for one day.
FrequentDayTop(frame, mkt, d, category) ==
    CodesOf(CountDates(<<>>, <<d>>, frame, mkt, category))

\* C27: for every day and category, the instruments of _get_top300_stocks and
\* of the per-day top 300 inside get_frequent_stocks are the instruments of
\* the day snapshot's list for that category, when no two rows of the slice
\* tie on the metric at the cut-off.
C27_OneRankerForSnapshotAndScanners ==
    DaySnapshotReturned =>
       \A category \in Categories(market) :
          ~TieAtCutoff(RankedSlice(df, market, call.date, category),
                       RankColumn(category))
          => /\ GetTop300Stocks(df, market, call.date, category)
                   = CodesOf(ret[category])
             /\ FrequentDayTop(df, market, call.date, category)
                   = CodesOf(ret[category])

\* A snapshot of a day with more rows than the cut-off keeps, none tied at the
\* cut-off, and a row that the rate condition of the value ranking drops.
C27_Witness ==
    /\ DaySnapshotReturned
    /\ call.op = "kr_day"
    /\ Len(DayData(df, call.date)) > TopLimit
    /\ ~TieAtCutoff(DayData(df, call.date), "change_pct")
    /\ Len(ret.change_rate) = TopLimit
    /\ Len(RateFiltered(DayData(df, call.date))) < Len(DayData(df, call.date))
    /\ Len(ret.trading_value) > 0

\* --------------------------------------- the favorites of a folder: C28

\* One visitor, favorite operations only, no file at the start.
NextFavorites ==
    \/ Return
    \/ \E req \in FavoriteRequests : Handle(FirstVisitor, req)

SpecFavorites == Init /\ [][NextFavorites]_vars

\* No two entries of a list are of the same code and market.
NoDuplicateStock(favorites) ==
    \A i, j \in 1..Len(favorites) :
       i # j => ~SameStock(favorites[i], favorites[j].code, FavMarket(favorites[j]))

NoDuplicateStocks(data) ==
    \A f \in DOMAIN data.favorites : NoDuplicateStock(data.favorites[f])

\* C28: after any sequence of add_favorite, remove_favorite, move_favorite and
\* reorder_favorites calls from a fresh document, no folder's favorites list
\* holds two entries with the same code and market.
C28_AsClaimed == NoDuplicateStocks(Observed(FirstVisitor))

\* What holds of C28: add_favorite and remove_favorite never bring a second
\* entry of a stock into a folder.
C28_AddAndRemoveKeepStocksDistinct ==
    [][(UserStep("add_favorite") \/ UserStep("remove_favorite"))
          => (NoDuplicateStocks(Observed(FirstVisitor))
                 => NoDuplicateStocks(ObservedNext(FirstVisitor)))]_vars

\* ------------------------------------------------ reordering: C29

\* How often x occurs in a list.
Occurrences(items, x) == Cardinality({i \in 1..Len(items) : items[i] = x})

SameMultiset(a, b) ==
    \A x \in Range(a) \union Range(b) : Occurrences(a, x) = Occurrences(b, x)

\* The listed keys that some item has, each at its first listing.
ListedKnown(item_keys, keys) ==
    SelectSeq([i \in 1..Len(keys) |-> [k |-> keys[i], at |-> i]],
              LAMBDA e : /\ \E i \in 1..Len(item_keys) : item_keys[i] = e.k
                         /\ \A j \in 1..(e.at - 1) : keys[j] # e.k)

\* after is before permuted: the same multiset, the items of the listed known
\* keys first in the order listed, the unlisted ones after them in their
\* order.  before_keys and after_keys are the keys of the items.
PermutedBy(before, before_keys, after, after_keys, keys) ==
    LET listed == ListedKnown(before_keys, keys)
        unlisted == SelectSeq([i \in 1..Len(before) |-> i],
                       LAMBDA i : \A j \in 1..Len(keys) : keys[j] # before_keys[i])
    IN /\ SameMultiset(before, after)
       /\ Len(after) >= Len(listed)
       /\ \A i \in 1..Len(listed) : after_keys[i] = listed[i].k
       /\ SubSeq(after, Len(listed) + 1, Len(after))
             = [i \in 1..Len(unlisted) |-> before[unlisted[i]]]

ReorderFoldersPermutes ==
    UserStep("reorder_folders")
       => PermutedBy(Observed(FirstVisitor).folders,
                     FolderIdsOf(Observed(FirstVisitor).folders),
                     ObservedNext(FirstVisitor).folders,
                     FolderIdsOf(ObservedNext(FirstVisitor).folders),
                     call'.req.keys)

ReorderFavoritesPermutes ==
    (UserStep("reorder_favorites") /\ ret' = [success |-> TRUE])
       => PermutedBy(Observed(FirstVisitor).favorites[call'.req.folder_id],
                     FavKeysOf(Observed(FirstVisitor).favorites[call'.req.folder_id]),
                     ObservedNext(FirstVisitor).favorites[call'.req.folder_id],
                     FavKeysOf(ObservedNext(FirstVisitor).favorites[call'.req.folder_id]),
                     call'.req.keys)

\* C29: reorder_folders and reorder_favorites only permute, for every
\* argument list (with unknown, missing or repeated ids or keys): the multiset
\* of folders, or of the folder's favorites, is the same after the call, the
\* listed known elements come first in the given order and the unlisted ones
\* after them in their previous relative order.
C29_AsClaimed == [][ReorderFoldersPermutes /\ ReorderFavoritesPermutes]_vars

NoRepeats(keys) == \A i, j \in 1..Len(keys) : i # j => keys[i] # keys[j]

DistinctKeys(item_keys) == NoRepeats(item_keys)

\* What holds of C29: the same, for a list without repeats applied to
\* elements of pairwise different ids or keys.
C29_ForListsWithoutRepeats ==
    [][/\ UserStep("reorder_folders") =>
             ((NoRepeats(call'.req.keys)
                  /\ DistinctKeys(FolderIdsOf(Observed(FirstVisitor).folders)))
              => ReorderFoldersPermutes)
       /\ (UserStep("reorder_favorites") /\ ret' = [success |-> TRUE]) =>
             ((NoRepeats(call'.req.keys)
                  /\ DistinctKeys(FavKeysOf(
                        Observed(FirstVisitor).favorites[call'.req.folder_id])))
              => ReorderFavoritesPermutes)]_vars

\* --------------------------------------- folders and their lists: C30

FolderOps ==
    {"create_folder", "delete_folder", "rename_folder", "reorder_folders",
     "add_favorite", "remove_favorite", "move_favorite"}

\* One visitor, the folder operations and the favorite operations that name a
\* folder, no file at the start.
NextFolders ==
    \/ Return
    \/ \E req \in {r \in FolderRequests \union FavoriteRequests : r.op \in FolderOps} :
          Handle(FirstVisitor, req)

SpecFolders == Init /\ [][NextFolders]_vars

FolderIds(data) == {data.folders[i].id : i \in 1..Len(data.folders)}

\* C30: after any sequence of create_folder, delete_folder, rename_folder,
\* reorder_folders, add_favorite, remove_favorite and move_favorite calls from
\* a fresh document, the keys of favorites are the folder ids of folders, and
\* the folder ids are pairwise distinct.
C30_AsClaimed ==
    /\ DOMAIN Observed(FirstVisitor).favorites = FolderIds(Observed(FirstVisitor))
    /\ DistinctKeys(FolderIdsOf(Observed(FirstVisitor).folders))

\* What holds of C30: every folder has a favorites list.
C30_EveryFolderHasAList ==
    FolderIds(Observed(FirstVisitor)) \subseteq DOMAIN Observed(FirstVisitor).favorites

====
